---- MODULE Spec2Model ----
(***************************************************************************)
(* Model of the amqpfind fan-in tool (rt_latency/src/amqpfind/amqpfind.py): *)
(* the multi-broker supervisor with its Dispatcher (multi_main), and the    *)
(* single-broker session (single_main) with the acknowledging consumer      *)
(* wrapper.  Time is a discrete clock of whole seconds.                     *)
(***************************************************************************)
EXTENDS Integers, Sequences, FiniteSets, TLC

VARIABLES
    opts,         \* the parsed command line options (OPTS)
    now,          \* the wall clock, datetime.utcnow(), in seconds
    sup,          \* the main process: "run", or how it ended
    rc,           \* the exit status of the main process
    alarmAt,      \* the instant the pending alarm() fires, Nil if none
    idleSince,    \* history: the start, or the last emit
    emitted,      \* history: what was handed to the emitter / callback, in order
    queue,        \* multi_main: the fan-in mp.Queue
    delivered,    \* number of broker deliveries so far
    active_keys,  \* Dispatcher.active_keys, in insertion order
    msg_buffer,   \* Dispatcher.msg_buffer
    max_wait,     \* multi_main: the timeout of the pending queue.get
    waitFrom,     \* multi_main: the instant the pending queue.get began
    closed,       \* history: the windows _clean_expired closed
    calls,        \* history: the last Dispatcher call
    trace,        \* history of callback / ack steps per delivery
    wpc,          \* worker_main: where the worker process is ("off": not modelled)
    reconnect_tries, \* worker_main: the attempts that remain, Nil for no limit
    wakeAt,       \* worker_main: the instant time.sleep(reconnect_delay) returns
    attempts,     \* history: the connections worker_main tried to open
    payload,      \* emit on its own: the JSON object of the event
    json_format_str, \* Dispatcher.json_format_str (opts.json)
    printed,      \* history: what json_emit wrote to stdout, one entry per write
    ppc,          \* sat_latency.pipeline run(): where the process is ("off": not modelled)
    data,         \* run: the records awaiting the next flush, per partition date
    batch_size,   \* run: the number of records in data
    batch_time,   \* run: the instant of the last flush (of the start, before it)
    writer_pool,  \* BatchWriter._writer_pool: the dates with a writer, oldest first
    max_size,     \* BatchWriter._max_size (pool_size)
    files,        \* the partition files under LATENCY_DIR: path -> IPC messages
    open_files,   \* the partition files some pa.OSFile handle holds open
    peak_open,    \* history: the most partition files open at the same time
    seen,         \* history: the number of lines read from stdin
    flushes,      \* history: the number of flushes run() has made
    write_calls,  \* history: the dates of the write_batch calls on a BatchWriter seen on its own
    args,         \* quickmq main: the parsed command line (parse_args)
    connections,  \* quickmq main: client.connections, target -> ConnectionStatus
    pub_status,   \* quickmq main: what client.publish returned
    ret,          \* quickmq main: the exit status, Nil while it runs
    argv,         \* quickmq: the command line as given
    qpc,          \* quickmq main: where the process is, or how it ended ("off": not modelled)
    lines_read,   \* quickmq main: the lines read from stdin in the stream mode
    published,    \* history: the client.publish calls, topic and payload
    disconnected, \* history: client.disconnect() was called
    cmdline,      \* amqpfind main: the command line and stdin as given
    servers,      \* amqpfind main: the list of server settings
    mpc,          \* amqpfind main: where main() is, or how it ended ("off": not modelled)
    main_rc,      \* amqpfind main: the exit status, Nil while it runs
    produced,     \* history: the basic_publish calls of AmqpExchange.produce
    contacted     \* history: the hosts a connection was opened to

(* The state of one worker process seen on its own *)
workerVars == <<wpc, reconnect_tries, wakeAt, attempts>>

(* The state of one event's way through Dispatcher.emit seen on its own *)
emitVars == <<payload, json_format_str, printed>>

(* The state of the storage pipeline (sat_latency.pipeline) seen on its own *)
writerVars == <<ppc, data, batch_size, batch_time, writer_pool, max_size, files, open_files,
                peak_open, seen, flushes, write_calls>>

(* The state of the publisher command (quickmq) seen on its own *)
pubVars == <<args, connections, pub_status, ret, argv, qpc, lines_read, published,
             disconnected>>

(* The state outside the supervisor and the single-broker session *)
(* The start of amqpfind's main() seen on its own *)
startVars == <<cmdline, servers, mpc, main_rc, produced, contacted>>

extVars == <<workerVars, emitVars, writerVars, pubVars, startVars>>

vars == <<opts, now, sup, rc, alarmAt, idleSince, emitted, queue, delivered,
          active_keys, msg_buffer, max_wait, waitFrom, closed, calls, trace, extVars>>

---------------------------------------------------------------------------
(* Bounds of the model *)

MaxTime == 3
MaxMsgs == 2

(* Program options and constants *)

Horizon == 1
Timeout == 2
Nil == -1

None == "None"
Topic == "geo.file"

---------------------------------------------------------------------------
(* Python dictionaries: functions from key strings to values *)

Has(d, k) == k \in DOMAIN d

SetDefault(d, k, v) ==
    IF Has(d, k) THEN d
    ELSE [x \in DOMAIN d \cup {k} |-> IF x = k THEN v ELSE d[x]]

Put(d, k, v) == [x \in DOMAIN d \cup {k} |-> IF x = k THEN v ELSE d[x]]

Update(a, b) ==
    [x \in DOMAIN a \cup DOMAIN b |-> IF x \in DOMAIN b THEN b[x] ELSE a[x]]

Max(a, b) == IF a >= b THEN a ELSE b

Range(s) == {s[i] : i \in 1..Len(s)}

(* A reception time that a payload already carries: before the clock's start *)
PresetTime == 0 - 1

(* The JSON objects the brokers deliver; the last one already carries the   *)
(* metadata fields.                                                         *)
Body1 == [sat |-> "G16", defects |-> 1]
Body2 == [sat |-> "G16", defects |-> 2]
Body3 == [sat |-> "G17", defects |-> 1, __topic__ |-> "orig.topic",
          __reception_time__ |-> PresetTime, __reception_host__ |-> "orig.host"]
Bodies == {Body1, Body2, Body3}

(* Which broker delivers what: mqA carries every product, mqB the copy of    *)
(* the first one.                                                            *)
Deliveries == { <<"mqA", Body1>>, <<"mqA", Body2>>, <<"mqA", Body3>>, <<"mqB", Body1>> }

(* The option sets the tool is started with: -k, -s, -t, -T.  The key      *)
(* expression is the payload field "sat", the scalar score expression the   *)
(* field "defects", the comparator the one of the --score help text, and    *)
(* the transform list is the one rule note=__topic__.                       *)
KeyExprs == {None, "sat"}
ScoreExprs == {None, "defects", "lambda"}
TransformList == << [key |-> "note", expr |-> "__topic__"] >>

(* More than one server: multi_main *)
MultiOpts ==
    { o \in [key : KeyExprs, score : ScoreExprs, timeout : {0, Timeout},
             transforms : {TransformList}, servers : {2}] :
        (o.key = None) => (o.score = None) }

(* One server: main() refuses -k, -w, -s and runs single_main *)
SingleOpts ==
    [key : {None}, score : {None}, timeout : {0, Timeout},
     transforms : {TransformList}, servers : {1}]

---------------------------------------------------------------------------
(* eval(code, namespace, old_msg) of a rule whose expression is a name:      *)
(* NameError when the payload has no such field.                             *)
TransformsRaise(trans, msg) == \E i \in 1..Len(trans) : ~Has(msg, trans[i].expr)

(* Faulty variant of TransformsFrom: every rule is evaluated on the payload  *)
(* as the earlier rules left it.                                             *)
RECURSIVE TransformsFrom_sequential(_, _, _)
TransformsFrom_sequential(trans, old_msg, new_msg) ==
    IF trans = <<>> THEN new_msg
    ELSE TransformsFrom_sequential(Tail(trans), old_msg,
                                   Put(new_msg, Head(trans).key, new_msg[Head(trans).expr]))

(* Transforms.__call__: every rule is evaluated on old_msg, written to new_msg *)
RECURSIVE TransformsFrom(_, _, _)
TransformsFrom(trans, old_msg, new_msg) ==
    IF trans = <<>> THEN new_msg
    ELSE TransformsFrom(Tail(trans), old_msg,
                        Put(new_msg, Head(trans).key, old_msg[Head(trans).expr]))

Transforms(trans, msg) == TransformsFrom(trans, msg, msg)

(* Faulty variant of add_default_metadata: the defaults are assigned whether *)
(* or not the payload has the field.                                         *)
add_default_metadata_overwriting(extra_default_payload, topic, msg, t) ==
    Update(Put(Put(msg, "__topic__", topic), "__reception_time__", t),
           extra_default_payload)

(* Dispatcher.add_default_metadata *)
add_default_metadata(extra_default_payload, topic, msg, t) ==
    Update(extra_default_payload,
           SetDefault(SetDefault(msg, "__topic__", topic), "__reception_time__", t))

(* Dispatcher.emit: the record of what reaches the emitter (json_emit or the *)
(* callback): the topic and the payload; at is the instant of the call.      *)
emit(o, extra_default_payload, topic, msg, t) ==
    [at |-> t, topic |-> topic,
     msg |-> Transforms(o.transforms, add_default_metadata(extra_default_payload, topic, msg, t))]

(* emit() re-arms the idle alarm *)
AlarmAfterEmit(o, t, old) == IF o.timeout > 0 THEN t + o.timeout ELSE old

---------------------------------------------------------------------------
(* worker_main.queue_callback: the tuple a worker puts on the fan-in queue.  *)
(* n numbers the deliveries (the identity of the message object), body is    *)
(* the JSON object as the broker delivered it (history).                     *)
queue_callback(host, routing_key, json_dict, t, n) ==
    [when |-> t, host |-> host, routing_key |-> routing_key,
     msg |-> Update([__reception_time__ |-> t, __reception_host__ |-> host], json_dict),
     n |-> n, body |-> json_dict]

---------------------------------------------------------------------------
(* Dispatcher *)

RaceMode(o) == o.key # None /\ o.score = None
CompeteMode(o) == o.key # None /\ o.score # None

(* The key expressions: the name sat, which NoneDict resolves to None when   *)
(* the payload has no such field, and sat.strip(), which then raises         *)
(* AttributeError.                                                           *)
StripExpr == "sat.strip()"
KeyField(o) == "sat"
key_raises(o, msg) == o.key = StripExpr /\ ~Has(msg, KeyField(o))

(* Dispatcher.key_for_msg: None without key_code and when the evaluation     *)
(* raised (the except clause logs and returns None).                         *)
key_for_msg(o, msg) ==
    IF o.key = None THEN None
    ELSE IF Has(msg, KeyField(o)) THEN msg[KeyField(o)] ELSE None

(* Dispatcher.score_for_msg: the scalar score expression is a name, looked   *)
(* up in dict(msg); NameError when the payload has no such field, and the    *)
(* except clause logs and returns None.                                      *)
score_raises(o, msg) == o.score \notin {None, "lambda"} /\ ~Has(msg, o.score)
score_for_msg(o, msg) == IF Has(msg, o.score) THEN msg[o.score] ELSE None

(* The comparator of the --score help text:                                  *)
(*   lambda a,b: a if a["defects"] < b["defects"] else b                     *)
UserLambda(a, b) == IF a.msg["defects"] < b.msg["defects"] THEN a ELSE b

(* Faulty variant of compare: the comparison of the scores is reversed *)
compare_reversed(o, e1, e2) ==
    IF o.score = "lambda" THEN UserLambda(e1, e2)
    ELSE IF score_for_msg(o, e1.msg) <= score_for_msg(o, e2.msg) THEN e1 ELSE e2

(* Dispatcher.compare, or the user's comparator that replaces it *)
compare(o, e1, e2) ==
    IF o.score = "lambda" THEN UserLambda(e1, e2)
    ELSE IF score_for_msg(o, e1.msg) >= score_for_msg(o, e2.msg) THEN e1 ELSE e2

(* The comparison raises: KeyError in the user's comparator for a payload    *)
(* without "defects"; TypeError (Python 3) in compare when a score is None.  *)
compare_raises(o, e1, e2) ==
    IF o.score = "lambda"
    THEN ~Has(e1.msg, "defects") \/ ~Has(e2.msg, "defects")
    ELSE score_raises(o, e1.msg) \/ score_raises(o, e2.msg)

(* functools.reduce(self.compare, messages) *)
RECURSIVE ReduceFrom(_, _, _)
ReduceFrom(o, acc, s) ==
    IF s = <<>> THEN acc ELSE ReduceFrom(o, compare(o, acc, Head(s)), Tail(s))

reduce(o, s) == ReduceFrom(o, Head(s), Tail(s))

(* reduce raises when one of its calls of the comparator does *)
RECURSIVE ReduceRaisesFrom(_, _, _)
ReduceRaisesFrom(o, acc, s) ==
    IF s = <<>> THEN FALSE
    ELSE \/ compare_raises(o, acc, Head(s))
         \/ ReduceRaisesFrom(o, compare(o, acc, Head(s)), Tail(s))

ReduceRaises(o, s) == ReduceRaisesFrom(o, Head(s), Tail(s))

(* random.shuffle: every ordering of the list *)
Perms(n) == {p \in [1..n -> 1..n] : \A i, j \in 1..n : i # j => p[i] # p[j]}
shuffle(s) == {[i \in 1..Len(s) |-> s[p[i]]] : p \in Perms(Len(s))}

(* Faulty variant of choose_msg: the test "score_code is None" written as a test for *)
(* a false value, which the comparator's score_code = False passes too.      *)
choose_msg_falsy(o, messages) ==
    IF o.score = "lambda" THEN {m[1] : m \in shuffle(messages)}
    ELSE {reduce(o, m) : m \in shuffle(messages)}

(* Dispatcher.choose_msg: the candidates it may return *)
choose_msg(o, messages) == {reduce(o, m) : m \in shuffle(messages)}

(* choose_msg raises for the order the shuffle left *)
ChooseRaises(o, messages) == \E m \in shuffle(messages) : ReduceRaises(o, m)

(* Faulty variant of IsExpired: the window is closed at its boundary instant too *)
IsExpired_inclusive(when, t) == (when + Horizon) <= t

(* _clean_expired's test of one window *)
IsExpired(when, t) == (when + Horizon) < t

KeysOf(ak) == {ak[i].key : i \in 1..Len(ak)}
WhenOf(ak, k) == (CHOOSE e \in Range(ak) : e.key = k).when

MaxWhen(ak) == CHOOSE w \in {e.when : e \in Range(ak)} :
                   \A e \in Range(ak) : w >= e.when

(* Faulty variant of max_sleep_til_next_window: the latest window instead of the     *)
(* earliest                                                                  *)
max_sleep_til_latest_window(ak, t) ==
    IF ak = <<>> THEN Nil ELSE Max(0, (MaxWhen(ak) + Horizon) - t)

(* Dispatcher.max_sleep_til_next_window *)
MinWhen(ak) == CHOOSE w \in {e.when : e \in Range(ak)} :
                   \A e \in Range(ak) : w <= e.when
max_sleep_til_next_window(ak, t) ==
    IF ak = <<>> THEN Nil ELSE Max(0, (MinWhen(ak) + Horizon) - t)

(* Dispatcher._dismiss_active_key decides here whether a key has candidates  *)
(* to compete: msg_buffer is not None and msg_buffer[key] is not empty.      *)
HasCompetitors(o, mb, k) == o.score # None /\ Has(mb, k) /\ mb[k] # <<>>

(* The call with no message: dispatch() after queue.get timed out *)
NoEvent == [n |-> 0]

(* Faulty variant of BufferAfterDismiss: the candidates of a closed window are kept *)
BufferAfterDismiss_kept(mb, dk, touched) == mb

(* msg_buffer after _dismiss_active_key ran for the expired keys: del        *)
(* msg_buffer[key] for the keys dk that had competitors; the defaultdict     *)
(* makes an empty entry for a key it was asked for and did not have.         *)
BufferAfterDismiss(mb, dk, touched) ==
    [k \in (DOMAIN mb \ dk) \cup touched |-> IF Has(mb, k) THEN mb[k] ELSE <<>>]

(* One entry of the emitted history: what reached the emitter, and for which *)
(* queued event (n, host, when, body) and key it was.                        *)
LogEntry(o, ev, k, t) ==
    [out |-> emit(o, <<>>, ev.routing_key, ev.msg, t),
     n |-> ev.n, host |-> ev.host, when |-> ev.when, body |-> ev.body, key |-> k]

(* Dispatcher._clean_expired at instant t, win[k] being what choose_msg      *)
(* returned for key k: the windows left, the buffer left, the emits made,    *)
(* and the history entries of the windows it closed.                         *)
CleanStep(o, ak, mb, t, win) ==
    LET ex   == SelectSeq(ak, LAMBDA e : IsExpired(e.when, t))
        dk   == {k \in KeysOf(ex) : HasCompetitors(o, mb, k)}
        exdk == SelectSeq(ex, LAMBDA e : e.key \in dk)
        touched == IF o.score # None THEN KeysOf(ex) \ dk ELSE {}
    IN  [ak  |-> SelectSeq(ak, LAMBDA e : ~(e.key \in KeysOf(ex))),
         mb  |-> BufferAfterDismiss(mb, dk, touched),
         out |-> [i \in 1..Len(exdk) |-> LogEntry(o, win[exdk[i].key], exdk[i].key, t)],
         closed |-> [i \in 1..Len(ex) |->
                      [key |-> ex[i].key, when |-> ex[i].when, at |-> t,
                       cands |-> IF Has(mb, ex[i].key) THEN mb[ex[i].key] ELSE <<>>,
                       winner |-> IF ex[i].key \in dk THEN win[ex[i].key] ELSE NoEvent]]]

(* The results choose_msg may give for the windows that close at t *)
WinnerChoices(o, ak, mb, t) ==
    LET dk == {k \in KeysOf(ak) : IsExpired(WhenOf(ak, k), t) /\ HasCompetitors(o, mb, k)}
        cands == UNION {Range(mb[k]) : k \in dk}
    IN  {w \in [dk -> cands] : \A k \in dk : w[k] \in choose_msg(o, mb[k])}

(* _clean_expired goes through active_keys in insertion order: the first     *)
(* expired window for which choose_msg raises, 0 when there is none.  The    *)
(* exception leaves _clean_expired and the dispatcher call.                  *)
RaisingWindows(o, ak, mb, t) ==
    {i \in 1..Len(ak) : /\ IsExpired(ak[i].when, t)
                        /\ HasCompetitors(o, mb, ak[i].key)
                        /\ ChooseRaises(o, mb[ak[i].key])}
FirstRaising(o, ak, mb, t) ==
    IF RaisingWindows(o, ak, mb, t) = {} THEN 0
    ELSE CHOOSE i \in RaisingWindows(o, ak, mb, t) :
             \A j \in RaisingWindows(o, ak, mb, t) : i <= j

(* Dispatcher._dispatch_race *)
RaceStep(o, ak, ev, t) ==
    LET key == key_for_msg(o, ev.msg)
    IN  IF key \notin KeysOf(ak)
        THEN [ak |-> Append(ak, [key |-> key, when |-> ev.when]),
              out |-> << LogEntry(o, ev, key, t) >>]
        ELSE [ak |-> ak, out |-> <<>>]

(* Dispatcher._dispatch_compete *)
CompeteStep(o, ak, mb, ev) ==
    LET key == key_for_msg(o, ev.msg)
    IN  [ak |-> IF key \notin KeysOf(ak)
                THEN Append(ak, [key |-> key, when |-> ev.when]) ELSE ak,
         mb |-> [k \in DOMAIN mb \cup {key} |->
                    IF k = key
                    THEN Append(IF Has(mb, k) THEN mb[k] ELSE <<>>, ev)
                    ELSE mb[k]]]

(* Dispatcher.__call__ at instant t with event ev (or NoEvent): the state it *)
(* leaves and the wait bound it returns.                                     *)
DispatcherCall(o, ak, mb, ev, t, win) ==
    LET c == IF ak # <<>> THEN CleanStep(o, ak, mb, t, win)
             ELSE [ak |-> ak, mb |-> mb, out |-> <<>>, closed |-> <<>>]
    IN  IF ev.n = 0
        THEN [ak |-> c.ak, mb |-> c.mb, out |-> c.out, closed |-> c.closed,
              wait |-> max_sleep_til_next_window(c.ak, t)]
        ELSE IF RaceMode(o)
        THEN LET r == RaceStep(o, c.ak, ev, t)
             IN  [ak |-> r.ak, mb |-> c.mb, out |-> c.out \o r.out, closed |-> c.closed,
                  wait |-> max_sleep_til_next_window(r.ak, t)]
        ELSE IF CompeteMode(o)
        THEN LET r == CompeteStep(o, c.ak, c.mb, ev)
             IN  [ak |-> r.ak, mb |-> r.mb, out |-> c.out, closed |-> c.closed,
                  wait |-> max_sleep_til_next_window(r.ak, t)]
        ELSE [ak |-> c.ak, mb |-> c.mb,
              out |-> c.out \o << LogEntry(o, ev, None, t) >>,
              closed |-> c.closed, wait |-> Nil]

---------------------------------------------------------------------------
(* The AMQP session of single_main: AmqpExchange.consume with the callback  *)
(* dispatch.emit, wrapped by acknowledge_after_callback_wrapper.            *)

SingleHost == "mqA"

(* Message bodies on the wire: a JSON object, the JSON value null, a JSON    *)
(* list, or bytes that are not JSON.                                         *)
WireBodies ==
    {[kind |-> "object", value |-> b] : b \in Bodies}
        \cup {[kind |-> "null"], [kind |-> "list"], [kind |-> "invalid"]}

(* json.loads(body.decode('utf-8')): ValueError for bytes that are not JSON  *)
(* (UnicodeDecodeError, a ValueError, for bytes that are not UTF-8),         *)
(* Python None for null, the decoded value otherwise.                        *)
json_loads(body) ==
    IF body.kind \in {"invalid", "badutf8"} THEN [raised |-> TRUE]
    ELSE IF body.kind = "null" THEN [raised |-> FALSE, content |-> [kind |-> "None"]]
    ELSE [raised |-> FALSE, content |-> body]

(* The callback of single_main is dispatch.emit(routing_key, body):          *)
(* add_default_metadata assigns msg['__topic__'], which raises TypeError on  *)
(* anything but a dictionary.                                                *)
CallbackRaises(content) == content.kind # "object"

(* Faulty variant of acknowledge_after_callback_wrapper: basic_ack in a      *)
(* finally clause, sent also when the callback raised.                       *)
acknowledge_after_callback_wrapper_finally(o, body, t, tag) ==
    LET d == json_loads(body)
        content == IF d.raised THEN [kind |-> "None"] ELSE d.content
        called == content.kind # "None"
        raises == called /\ CallbackRaises(content)
    IN  [steps |-> IF ~called THEN << [tag |-> tag, kind |-> body.kind, step |-> "ack"] >>
                   ELSE IF raises
                   THEN << [tag |-> tag, kind |-> body.kind, step |-> "callback_raised"],
                           [tag |-> tag, kind |-> body.kind, step |-> "ack"] >>
                   ELSE << [tag |-> tag, kind |-> body.kind, step |-> "callback_returned"],
                           [tag |-> tag, kind |-> body.kind, step |-> "ack"] >>,
         out |-> IF called /\ ~raises
                 THEN << [out |-> emit(o, [__reception_host__ |-> SingleHost],
                                       Topic, content.value, t),
                          n |-> tag, host |-> SingleHost, when |-> t,
                          body |-> content.value, key |-> None] >>
                 ELSE <<>>,
         raised |-> raises]

(* acknowledge_after_callback_wrapper for delivery number tag at instant t:  *)
(* the steps it takes in order, what the callback emitted, and whether the   *)
(* exception of the callback leaves it.                                      *)
acknowledge_after_callback_wrapper(o, body, t, tag) ==
    LET d == json_loads(body)
        content == IF d.raised THEN [kind |-> "None"] ELSE d.content
        called == content.kind # "None"
        raises == called /\ CallbackRaises(content)
        ev == [n |-> tag, host |-> SingleHost, when |-> t, body |-> content.value,
               routing_key |-> Topic, msg |-> content.value]
    IN  [steps |-> IF ~called THEN << [tag |-> tag, kind |-> body.kind, step |-> "ack"] >>
                   ELSE IF raises
                   THEN << [tag |-> tag, kind |-> body.kind, step |-> "callback_raised"] >>
                   ELSE << [tag |-> tag, kind |-> body.kind, step |-> "callback_returned"],
                           [tag |-> tag, kind |-> body.kind, step |-> "ack"] >>,
         out |-> IF called /\ ~raises
                 THEN << [out |-> emit(o, [__reception_host__ |-> SingleHost],
                                       Topic, content.value, t),
                          n |-> tag, host |-> SingleHost, when |-> t,
                          body |-> content.value, key |-> None] >>
                 ELSE <<>>,
         raised |-> raises]

---------------------------------------------------------------------------
(* multi_main: the supervisor of the worker processes *)

EmptyDict == [k \in {} |-> <<>>]

(* The output of json_emit is not looked at *)
EmitOff == payload = << >> /\ json_format_str = None /\ printed = <<>>

(* The worker process is not looked at on its own *)
WorkerOff == wpc = "off" /\ reconnect_tries = Nil /\ wakeAt = Nil /\ attempts = 0

(* The publisher command is not part of this specification *)
StartOff ==
    /\ cmdline = <<>> /\ servers = <<>> /\ mpc = "off" /\ main_rc = Nil
    /\ produced = <<>> /\ contacted = {}

PubOff ==
    /\ args = <<>> /\ connections = <<>> /\ pub_status = <<>> /\ ret = Nil
    /\ argv = <<>> /\ qpc = "off" /\ lines_read = 0 /\ published = <<>>
    /\ disconnected = FALSE

(* The storage pipeline is not part of this specification *)
WriterOff ==
    /\ ppc = "off" /\ data = <<>> /\ batch_size = 0 /\ batch_time = 0
    /\ writer_pool = <<>>
    /\ max_size = 0 /\ files = <<>> /\ open_files = {} /\ peak_open = 0
    /\ seen = 0 /\ flushes = 0 /\ write_calls = <<>>

Init ==
    /\ opts \in MultiOpts \cup SingleOpts
    /\ now = 0
    /\ sup = "run"
    /\ rc = Nil
    /\ alarmAt = IF opts.timeout > 0 THEN opts.timeout ELSE Nil
    /\ idleSince = 0
    /\ emitted = <<>>
    /\ queue = <<>>
    /\ delivered = 0
    /\ active_keys = <<>>
    /\ msg_buffer = EmptyDict
    /\ max_wait = Nil
    /\ waitFrom = 0
    /\ closed = <<>>
    /\ calls = [at |-> 0, n |-> 0, open |-> <<>>, nclosed |-> 0, keyerr |-> FALSE]
    /\ trace = <<>>
    /\ WorkerOff
    /\ EmitOff
    /\ WriterOff
    /\ PubOff
    /\ StartOff

(* A broker delivers JSON object b to the worker of host h, which puts the   *)
(* event on the fan-in queue (worker_main.queue_callback).                   *)
Deliver(h, b) ==
    /\ opts.servers > 1
    /\ sup = "run"
    /\ delivered < MaxMsgs
    /\ now + Horizon < MaxTime
    /\ queue' = Append(queue, queue_callback(h, Topic, b, now, delivered + 1))
    /\ delivered' = delivered + 1
    /\ UNCHANGED <<extVars, opts, now, sup, rc, alarmAt, idleSince, emitted, active_keys,
                   msg_buffer, max_wait, waitFrom, closed, calls, trace>>

(* max_wait = dispatch(...) in the loop of multi_main; the next queue.get    *)
(* begins at once.                                                           *)
(* An exception of choose_msg is caught nowhere: the windows before the one  *)
(* that raised have been closed and emitted, then the process ends with a    *)
(* traceback, status 1.                                                      *)
Dispatch(ev) ==
    IF FirstRaising(opts, active_keys, msg_buffer, now) # 0
    THEN LET pre == SubSeq(active_keys, 1,
                           FirstRaising(opts, active_keys, msg_buffer, now) - 1)
         IN  \E win \in WinnerChoices(opts, pre, msg_buffer, now) :
                /\ emitted' = emitted \o CleanStep(opts, pre, msg_buffer, now, win).out
                /\ sup' = "crashed"
                /\ rc' = 1
                /\ UNCHANGED <<active_keys, msg_buffer, closed, max_wait, waitFrom,
                               calls, alarmAt, idleSince>>
    ELSE
    \E win \in WinnerChoices(opts, active_keys, msg_buffer, now) :
      \E r \in {DispatcherCall(opts, active_keys, msg_buffer, ev, now, win)} :
            /\ active_keys' = r.ak
            /\ msg_buffer' = r.mb
            /\ emitted' = emitted \o r.out
            /\ closed' = closed \o r.closed
            /\ max_wait' = r.wait
            /\ waitFrom' = now
            /\ calls' = [at |-> now, n |-> ev.n, open |-> active_keys,
                         nclosed |-> Len(closed),
                         keyerr |-> ev.n # 0 /\ key_raises(opts, ev.msg)]
            /\ alarmAt' = IF r.out # <<>> THEN AlarmAfterEmit(opts, now, alarmAt)
                          ELSE alarmAt
            /\ idleSince' = IF r.out # <<>> THEN now ELSE idleSince
            /\ UNCHANGED <<sup, rc>>

(* queue.get returned an event *)
SupAccept ==
    /\ opts.servers > 1
    /\ sup = "run"
    /\ queue # <<>>
    /\ Dispatch(Head(queue))
    /\ queue' = Tail(queue)
    /\ UNCHANGED <<extVars, opts, now, delivered, trace>>

(* queue.get raised Queue.Empty after max_wait seconds *)
SupTimeout ==
    /\ opts.servers > 1
    /\ sup = "run"
    /\ queue = <<>>
    /\ max_wait # Nil
    /\ now >= waitFrom + max_wait
    /\ Dispatch(NoEvent)
    /\ UNCHANGED <<extVars, opts, now, queue, delivered, trace>>

(* KeyboardInterrupt in multi_main: workers are terminated, rc stays 0 *)
Interrupt ==
    /\ sup = "run"
    /\ sup' = "interrupt"
    /\ rc' = 0
    /\ UNCHANGED <<extVars, opts, now, alarmAt, idleSince, emitted, queue, delivered,
                   active_keys, msg_buffer, max_wait, waitFrom, closed, calls, trace>>

(* SIGTERM: no handler is installed, the process dies at once *)
Terminate ==
    /\ sup = "run"
    /\ sup' = "killed"
    /\ rc' = Nil
    /\ UNCHANGED <<extVars, opts, now, alarmAt, idleSince, emitted, queue, delivered,
                   active_keys, msg_buffer, max_wait, waitFrom, closed, calls, trace>>

(* SIGALRM: handle_timeout raises TimeoutException, multi_main returns 2 *)
AlarmMulti ==
    /\ opts.servers > 1
    /\ sup = "run"
    /\ alarmAt # Nil
    /\ now >= alarmAt
    /\ sup' = "timeout"
    /\ rc' = 2
    /\ UNCHANGED <<extVars, opts, now, alarmAt, idleSince, emitted, queue, delivered,
                   active_keys, msg_buffer, max_wait, waitFrom, closed, calls, trace>>

(* single_main: the broker delivers body to the session; the wrapper runs    *)
(* the callback and acknowledges.  An exception of the callback leaves       *)
(* consume and single_main uncaught: the process ends with status 1.         *)
SessionDeliver(body) ==
    /\ opts.servers = 1
    /\ sup = "run"
    /\ delivered < MaxMsgs
    /\ LET r == acknowledge_after_callback_wrapper(opts, body, now, delivered + 1)
       IN  /\ trace' = trace \o r.steps
           /\ emitted' = emitted \o r.out
           /\ idleSince' = IF r.out # <<>> THEN now ELSE idleSince
           /\ alarmAt' = IF opts.timeout > 0 THEN now + opts.timeout ELSE alarmAt
           /\ sup' = IF r.raised THEN "crashed" ELSE sup
           /\ rc' = IF r.raised THEN 1 ELSE rc
    /\ delivered' = delivered + 1
    /\ UNCHANGED <<extVars, opts, now, queue, active_keys, msg_buffer, max_wait, waitFrom,
                   closed, calls>>

(* SIGALRM in single_main: TimeoutException, single_main returns 1 *)
AlarmSingle ==
    /\ opts.servers = 1
    /\ sup = "run"
    /\ alarmAt # Nil
    /\ now >= alarmAt
    /\ sup' = "timeout"
    /\ rc' = 1
    /\ UNCHANGED <<extVars, opts, now, alarmAt, idleSince, emitted, queue, delivered,
                   active_keys, msg_buffer, max_wait, waitFrom, closed, calls, trace>>

(* A second passes; a pending alarm goes off no later than its instant *)
Tick ==
    /\ sup = "run"
    /\ now < MaxTime
    /\ alarmAt = Nil \/ now < alarmAt
    /\ now' = now + 1
    /\ UNCHANGED <<extVars, opts, sup, rc, alarmAt, idleSince, emitted, queue, delivered,
                   active_keys, msg_buffer, max_wait, waitFrom, closed, calls, trace>>

Next ==
    \/ \E d \in Deliveries : Deliver(d[1], d[2])
    \/ SupAccept
    \/ SupTimeout
    \/ Interrupt
    \/ Terminate
    \/ AlarmMulti
    \/ \E body \in WireBodies : SessionDeliver(body)
    \/ AlarmSingle
    \/ Tick

Spec == Init /\ [][Next]_vars

(* The supervisor process keeps running its loop, time passes, and a pending *)
(* alarm signal is delivered; nothing is assumed of the brokers' deliveries  *)
(* or of the shutdown signals.                                               *)
LiveSpec ==
    /\ Spec
    /\ WF_vars(SupAccept)
    /\ WF_vars(SupTimeout)
    /\ WF_vars(Tick)
    /\ WF_vars(AlarmMulti)
    /\ WF_vars(AlarmSingle)

---------------------------------------------------------------------------
(* worker_main: one worker process of multi_main, seen on its own: the       *)
(* session to its broker, the deliveries it gets through                    *)
(* acknowledge_after_callback_wrapper with the callback queue_callback, and  *)
(* the reconnect loop.                                                       *)

ReconnectDelay == 1
ReconnectTries == 2
WorkerHost == "mqA"

(* What a broker can deliver to a worker: the bodies of the session, and     *)
(* JSON that is not an object: a number, a non-empty string, an empty list   *)
(* (WireBodies' list is a non-empty list of scalars), and bytes that are not *)
(* UTF-8.                                                                    *)
WorkerBodies ==
    WireBodies \cup {[kind |-> "number"], [kind |-> "string"],
                     [kind |-> "emptylist"], [kind |-> "badutf8"]}

(* content.update(json_dict) in queue_callback: a dictionary updates, an     *)
(* empty list is an empty sequence of pairs and updates nothing, a list of   *)
(* scalars or a number raises TypeError, a non-empty string ValueError       *)
(* (logged and raised again).                                                *)
queue_callback_raises(content) == content.kind \in {"list", "number", "string"}
UpdateArg(content) == IF content.kind = "object" THEN content.value ELSE EmptyDict

(* acknowledge_after_callback_wrapper with callback = queue_callback for     *)
(* delivery number tag at instant t: the steps in order, what was put on the *)
(* fan-in queue, and whether the callback's exception leaves the wrapper     *)
(* (and with it start_consuming and consume).                                *)
worker_delivery(host, body, t, tag) ==
    LET d == json_loads(body)
        content == IF d.raised THEN [kind |-> "None"] ELSE d.content
        called == content.kind # "None"
        raises == called /\ queue_callback_raises(content)
        step(x) == [tag |-> tag, kind |-> body.kind, step |-> x]
    IN  [steps |-> IF d.raised THEN << step("log"), step("ack") >>
                   ELSE IF ~called THEN << step("ack") >>
                   ELSE IF raises THEN << step("callback_raised") >>
                   ELSE << step("callback_returned"), step("ack") >>,
         put |-> IF called /\ ~raises
                 THEN << queue_callback(host, Topic, UpdateArg(content), t, tag) >>
                 ELSE <<>>,
         raised |-> raises]

(* The rest of the loop body after consume ended: amqp.close(), the count   *)
(* of tries, time.sleep(reconnect_delay).                                    *)
AfterSession ==
    /\ wpc' = "sleep"
    /\ reconnect_tries' = IF reconnect_tries = Nil THEN Nil ELSE reconnect_tries - 1
    /\ wakeAt' = now + ReconnectDelay

WorkerInit ==
    /\ opts \in {[key |-> None, score |-> None, timeout |-> t,
                  transforms |-> TransformList, servers |-> 2] : t \in {0, Timeout}}
    /\ now = 0 /\ sup = "run" /\ rc = Nil /\ alarmAt = Nil /\ idleSince = 0
    /\ emitted = <<>> /\ queue = <<>> /\ delivered = 0
    /\ active_keys = <<>> /\ msg_buffer = EmptyDict
    /\ max_wait = Nil /\ waitFrom = 0 /\ closed = <<>>
    /\ calls = [at |-> 0, n |-> 0, open |-> <<>>, nclosed |-> 0, keyerr |-> FALSE]
    /\ trace = <<>>
    /\ wpc = "loop"
    /\ reconnect_tries \in {Nil, ReconnectTries}
    /\ wakeAt = Nil
    /\ attempts = <<>>
    /\ EmitOff
    /\ WriterOff
    /\ PubOff
    /\ StartOff

(* The loop test, then amqp = AmqpExchange(server_info), which opens the     *)
(* connection in its constructor, outside the try statement: when it raises, *)
(* the exception leaves worker_main.  server_info carries timeout =          *)
(* opts.timeout, so consume() of the worker calls alarm(timeout) when -t is  *)
(* given; alarmAt is here the alarm of the worker process.                   *)
WorkerConnect(ok) ==
    /\ wpc = "loop"
    /\ reconnect_tries = Nil \/ reconnect_tries > 0
    /\ attempts' = Append(attempts, [at |-> now, ok |-> ok, tries |-> reconnect_tries,
                                     after |-> wakeAt])
    /\ wpc' = IF ok THEN "consume" ELSE "dead"
    /\ alarmAt' = IF ok /\ opts.timeout # 0 THEN now + opts.timeout ELSE alarmAt
    /\ UNCHANGED <<pubVars, startVars, writerVars, emitVars, opts, now, sup, rc, idleSince, emitted, queue, delivered,
                   active_keys, msg_buffer, max_wait, waitFrom, closed, calls, trace,
                   reconnect_tries, wakeAt>>

(* The loop test fails: worker_main returns *)
WorkerReturn ==
    /\ wpc = "loop"
    /\ reconnect_tries # Nil /\ reconnect_tries <= 0
    /\ wpc' = "done"
    /\ UNCHANGED <<pubVars, startVars, writerVars, emitVars, opts, now, sup, rc, alarmAt, idleSince, emitted, queue, delivered,
                   active_keys, msg_buffer, max_wait, waitFrom, closed, calls, trace,
                   reconnect_tries, wakeAt, attempts>>

(* The broker delivers body; an exception of the callback ends the session   *)
(* (the bare except of worker_main logs it).  After the acknowledgement the  *)
(* wrapper calls alarm(timeout) again when -t is given.                      *)
WorkerDeliver(body) ==
    /\ wpc = "consume"
    /\ delivered < MaxMsgs
    /\ LET r == worker_delivery(WorkerHost, body, now, delivered + 1)
       IN  /\ trace' = trace \o r.steps
           /\ queue' = queue \o r.put
           /\ IF r.raised THEN AfterSession
              ELSE UNCHANGED <<wpc, reconnect_tries, wakeAt>>
           /\ alarmAt' = IF ~r.raised /\ opts.timeout # 0 THEN now + opts.timeout
                         ELSE alarmAt
    /\ delivered' = delivered + 1
    /\ UNCHANGED <<pubVars, startVars, writerVars, emitVars, opts, now, sup, rc, idleSince, emitted,
                   active_keys, msg_buffer, max_wait, waitFrom, closed, calls, attempts>>

(* The session dies (the broker disconnects): consume raises or returns *)
WorkerSessionDies ==
    /\ wpc = "consume"
    /\ AfterSession
    /\ UNCHANGED <<pubVars, startVars, writerVars, emitVars, opts, now, sup, rc, alarmAt, idleSince, emitted, queue, delivered,
                   active_keys, msg_buffer, max_wait, waitFrom, closed, calls, trace,
                   attempts>>

(* KeyboardInterrupt in consume: break *)
WorkerInterrupt ==
    /\ wpc = "consume"
    /\ wpc' = "interrupted"
    /\ UNCHANGED <<pubVars, startVars, writerVars, emitVars, opts, now, sup, rc, alarmAt, idleSince, emitted, queue, delivered,
                   active_keys, msg_buffer, max_wait, waitFrom, closed, calls, trace,
                   reconnect_tries, wakeAt, attempts>>

(* time.sleep(reconnect_delay) returns *)
WorkerWake ==
    /\ wpc = "sleep"
    /\ now >= wakeAt
    /\ wpc' = "loop"
    /\ UNCHANGED <<pubVars, startVars, writerVars, emitVars, opts, now, sup, rc, alarmAt, idleSince, emitted, queue, delivered,
                   active_keys, msg_buffer, max_wait, waitFrom, closed, calls, trace,
                   reconnect_tries, wakeAt, attempts>>

(* The alarm of the worker goes off.  multi_main installs handle_timeout    *)
(* after it has started the workers and in its own process only: in the     *)
(* worker SIGALRM has its default action, which ends the process.  Nothing   *)
(* cancels the alarm when a session ends, so it also goes off in the sleep.  *)
WorkerAlarm ==
    /\ wpc \in {"loop", "consume", "sleep"}
    /\ alarmAt # Nil /\ now >= alarmAt
    /\ wpc' = "killed" /\ alarmAt' = Nil
    /\ UNCHANGED <<pubVars, startVars, writerVars, emitVars, opts, now, sup, rc, idleSince, emitted, queue, delivered,
                   active_keys, msg_buffer, max_wait, waitFrom, closed, calls, trace,
                   reconnect_tries, wakeAt, attempts>>

WorkerNext ==
    \/ \E ok \in BOOLEAN : WorkerConnect(ok)
    \/ WorkerReturn
    \/ \E body \in WorkerBodies : WorkerDeliver(body)
    \/ WorkerSessionDies
    \/ WorkerInterrupt
    \/ WorkerWake
    \/ WorkerAlarm
    \/ Tick

WorkerSpec == WorkerInit /\ [][WorkerNext]_vars

---------------------------------------------------------------------------
(* One event's way through Dispatcher.emit, seen on its own: the supervisor  *)
(* of multi_main without -k dispatches one event of a worker; emit enriches  *)
(* it, applies the transform rules of -T and hands the result to json_emit   *)
(* with the format of -j.                                                    *)

MaxRules == 2

Fields == {"a", "b"}
Values == {"x", "y"}
Payloads == UNION {[D -> Values] : D \in SUBSET Fields}

(* -T key=expr, the expression being a name *)
Rules == [key : {"a", "b", "c"}, expr : {"a", "b", "c"}]
RuleLists == UNION {[1..n -> Rules] : n \in 0..MaxRules}

(* -j: a format string is a sequence of literal texts and {name}            *)
(* placeholders; without -j the line is the topic and the JSON text; '*' is  *)
(* the null-terminated JSON pair.                                            *)
Lit(t) == [text |-> t, name |-> ""]
Hole(n) == [text |-> "", name |-> n]
Templates ==
    { << Hole("a") >>,
      << Lit("a="), Hole("a"), Lit(" c="), Hole("c") >>,
      << Hole("b"), Lit("/"), Hole("b") >>,
      << Lit("seen") >> }
Formats ==
    {[mode |-> "dump", parts |-> <<>>], [mode |-> "star", parts |-> <<>>]}
        \cup {[mode |-> "template", parts |-> t] : t \in Templates}

_missing_ == "?UNKNOWN?"

(* The names a format string looks up *)
NamesOf(parts) == {parts[i].name : i \in {j \in 1..Len(parts) : parts[j].name # ""}}

(* Faulty variant of json_emit: discontent is a plain dict; the KeyError of  *)
(* an absent name is caught by the outer handler and the message skipped.    *)
json_emit_plain_dict(topic, content, format_str) ==
    IF format_str.mode = "template"
    THEN IF NamesOf(format_str.parts) \subseteq DOMAIN content
         THEN [out |-> << [mode |-> "template", topic |-> topic, content |-> content,
                           line |-> [i \in 1..Len(format_str.parts) |->
                                       IF format_str.parts[i].name = ""
                                       THEN format_str.parts[i].text
                                       ELSE content[format_str.parts[i].name]]] >>,
               discontent |-> content]
         ELSE [out |-> <<>>, discontent |-> content]
    ELSE [out |-> << [mode |-> format_str.mode, topic |-> topic, content |-> content,
                      line |-> <<>>] >>,
          discontent |-> content]

(* json_emit (Python 3: str.format_map): what is written to stdout, with the *)
(* content dictionary as the call leaves it, and the defaultdict discontent  *)
(* that the lookups filled.                                                  *)
json_emit(topic, content, format_str) ==
    IF format_str.mode = "template"
    THEN [out |-> << [mode |-> "template", topic |-> topic, content |-> content,
                      line |-> [i \in 1..Len(format_str.parts) |->
                                  IF format_str.parts[i].name = ""
                                  THEN format_str.parts[i].text
                                  ELSE IF Has(content, format_str.parts[i].name)
                                  THEN content[format_str.parts[i].name]
                                  ELSE _missing_]] >>,
          discontent |-> [k \in DOMAIN content \cup NamesOf(format_str.parts) |->
                             IF Has(content, k) THEN content[k] ELSE _missing_]]
    ELSE [out |-> << [mode |-> format_str.mode, topic |-> topic, content |-> content,
                      line |-> <<>>] >>,
          discontent |-> content]

EmitInit ==
    /\ opts \in [key : {None}, score : {None}, timeout : {0},
                 transforms : RuleLists, servers : {2}]
    /\ now = 0 /\ sup = "run" /\ rc = Nil /\ alarmAt = Nil /\ idleSince = 0
    /\ emitted = <<>> /\ queue = <<>> /\ delivered = 0
    /\ active_keys = <<>> /\ msg_buffer = EmptyDict
    /\ max_wait = Nil /\ waitFrom = 0 /\ closed = <<>>
    /\ calls = [at |-> 0, n |-> 0, open |-> <<>>, nclosed |-> 0, keyerr |-> FALSE]
    /\ trace = <<>>
    /\ WorkerOff
    /\ WriterOff
    /\ PubOff
    /\ StartOff
    /\ payload \in Payloads
    /\ json_format_str \in Formats
    /\ printed = <<>>

(* The event as the worker queued it and as add_default_metadata leaves it *)
Queued(p, t) == queue_callback(WorkerHost, Topic, p, t, 1)
Enriched(p, t) == add_default_metadata(<< >>, Topic, Queued(p, t).msg, t)

(* dispatch(when, host, routing_key, msg) without key and score: emit.  An   *)
(* exception of a transform rule is caught neither in Transforms.__call__,   *)
(* nor in emit, nor in the loop of multi_main: the process ends with a       *)
(* traceback, status 1.                                                      *)
EmitCall ==
    /\ sup = "run"
    /\ delivered = 0
    /\ delivered' = 1
    /\ IF TransformsRaise(opts.transforms, Enriched(payload, now))
       THEN /\ sup' = "crashed"
            /\ rc' = 1
            /\ UNCHANGED <<emitted, printed>>
       ELSE LET e == LogEntry(opts, Queued(payload, now), None, now)
            IN  /\ emitted' = << e >>
                /\ printed' = json_emit(e.out.topic, e.out.msg, json_format_str).out
                /\ UNCHANGED <<sup, rc>>
    /\ UNCHANGED <<pubVars, startVars, writerVars, workerVars, payload, json_format_str, opts, now, alarmAt, idleSince,
                   queue, active_keys, msg_buffer, max_wait, waitFrom, closed, calls,
                   trace>>

EmitNext == EmitCall

EmitSpec == EmitInit /\ [][EmitNext]_vars

---------------------------------------------------------------------------
(* The supervisor with a key expression that raises on payloads without the  *)
(* field sat, and with payloads that lack the field the score reads.         *)

BodyNoSat == [defects |-> 2]
BodyNoScore == [sat |-> "G16"]
ErrDeliveries ==
    { <<"mqA", Body1>>, <<"mqA", BodyNoSat>>, <<"mqB", BodyNoSat>>, <<"mqA", BodyNoScore>> }

ErrInit ==
    /\ opts \in [key : {StripExpr}, score : ScoreExprs, timeout : {0},
                 transforms : {TransformList}, servers : {2}]
    /\ now = 0 /\ sup = "run" /\ rc = Nil /\ alarmAt = Nil /\ idleSince = 0
    /\ emitted = <<>> /\ queue = <<>> /\ delivered = 0
    /\ active_keys = <<>> /\ msg_buffer = EmptyDict
    /\ max_wait = Nil /\ waitFrom = 0 /\ closed = <<>>
    /\ calls = [at |-> 0, n |-> 0, open |-> <<>>, nclosed |-> 0, keyerr |-> FALSE]
    /\ trace = <<>>
    /\ WorkerOff
    /\ EmitOff
    /\ WriterOff
    /\ PubOff
    /\ StartOff

ErrNext ==
    \/ \E d \in ErrDeliveries : Deliver(d[1], d[2])
    \/ SupAccept
    \/ SupTimeout
    \/ Tick

ErrSpec == ErrInit /\ [][ErrNext]_vars

---------------------------------------------------------------------------
(* The storage pipeline: sat_latency.pipeline.__main__.run reads the lines  *)
(* amqpfind printed, groups the records by partition date and hands every   *)
(* group to BatchWriter (sat_latency/pipeline/load.py), which appends it    *)
(* to the partition file of the date.  read_satellite_data reads the files  *)
(* back.  Timestamps are counted in whole hours since 2025-01-01T00 UTC.    *)

(* Bounds of the pipeline model *)
MaxPool == 2
MaxPoints == 3

(* env.BATCH_MAX_SIZE: the records that make run() flush *)
BatchMaxSize == 2

(* env.BATCH_MAX_DELAY: the seconds since the last flush that make run()   *)
(* flush at the next line                                                   *)
BatchMaxDelay == 2

(* The variables of amqpfind, which the pipeline does not touch *)
amqpVars == <<opts, now, sup, rc, alarmAt, idleSince, emitted, queue, delivered,
              active_keys, msg_buffer, max_wait, waitFrom, closed, calls, trace>>

(* The text of a time field as far as the pipeline looks at it: year,      *)
(* month, day (the first ten characters), the hour of the day and the      *)
(* microseconds past the hour.  The fourth text names month 13, the fifth  *)
(* has a date and no hour that exists.                                      *)
StartTimes == {<<2025, 1, 30, 6, 1500>>, <<2025, 1, 31, 0, 999>>, <<2025, 2, 1, 12, 0>>,
               <<2025, 13, 1, 0, 0>>, <<2025, 1, 30, 99, 0>>}

ReceptionTime == <<2025, 2, 2, 0, 250>>

(* A reception time before the start times of the last two days *)
EarlyReception == <<2025, 1, 30, 0, 500>>

(* The None that read_input yields for a time field amqpfind did not find *)
NoTime == <<Nil>>

(* extract.INGEST_FIELDS, as far as the model follows a record: the topic, *)
(* the reception time and the start time, in the order of the line         *)
INGEST_FIELDS == <<"topic", "reception_time", "start_time">>

(* The lines of stdin, field by field (the separator is "!", the last      *)
(* field ends at the line break): well-formed lines, a line too short, a   *)
(* line with a field too many, and the line that is empty.                  *)
Lines ==
    {<<t, ReceptionTime, st>> : t \in {"a.b", ""}, st \in StartTimes \cup {<<>>}}
    \cup {<<"a.b", EarlyReception, <<2025, 2, 1, 12, 0>>>>,
          <<"a.b", ReceptionTime>>,
          <<"a.b", ReceptionTime, <<2025, 1, 30, 6, 1500>>, "more">>,
          <<"">>}

(* fields_from_line: every field of the line; an empty field or the        *)
(* "?UNKNOWN?" of amqpfind is None                                          *)
fields_from_line(line) ==
    [i \in 1..Len(line) |->
        IF i \in {2, 3}
        THEN (IF line[i] = <<>> THEN NoTime ELSE line[i])
        ELSE (IF line[i] \in {"", _missing_} THEN None ELSE line[i])]

(* read_input: dict(zip(INGEST_FIELDS, fields_from_line(line))); zip stops *)
(* at the shorter of the two                                                *)
read_input(line) ==
    [name \in {INGEST_FIELDS[i] : i \in 1..(IF Len(line) < Len(INGEST_FIELDS) THEN Len(line) ELSE Len(INGEST_FIELDS))} |->
        fields_from_line(line)[CHOOSE i \in 1..Len(INGEST_FIELDS) : INGEST_FIELDS[i] = name]]

Points == {read_input(line) : line \in Lines}

DaysIn(month) ==
    IF month = 2 THEN 28 ELSE IF month \in {4, 6, 9, 11} THEN 30 ELSE 31

(* date.fromisoformat of the first ten characters raises ValueError for a  *)
(* month or a day out of range                                              *)
fromisoformat_raises(text) ==
    \/ text[2] \notin 1..12
    \/ text[3] \notin 1..DaysIn(text[2])

fromisoformat(text) == [year |-> text[1], month |-> text[2], day |-> text[3]]

(* Faulty variant of _path_stub_from_date: the day is left out of the file *)
(* name, every file is named after the first day of the month              *)
_path_stub_from_date_monthly(date) ==
    <<date.year, date.year * 100 + date.month,
      (date.year * 100 + date.month) * 100 + 1>>

(* date.strftime("%Y/%Y_%m/%Y_%m_%d_latencies.arrows"): the three parts of *)
(* the path, the digits of each part read as one number                    *)
_path_stub_from_date(date) ==
    <<date.year, date.year * 100 + date.month,
      (date.year * 100 + date.month) * 100 + date.day>>

RECURSIVE DaysBefore(_)
DaysBefore(month) == IF month = 1 THEN 0 ELSE DaysBefore(month - 1) + DaysIn(month - 1)

(* pc.cast(text, timestamp("us")) raises ArrowInvalid for a text that is  *)
(* no timestamp                                                             *)
to_timestamp_raises(text) == text[4] \notin 0..23

(* pc.cast(text, timestamp("us")) and assume_timezone(UTC): the instant    *)
(* the text names, read as UTC: the seconds since 2025-01-01T00:00:00 and  *)
(* the microseconds of the second                                           *)
to_timestamp(text) ==
    [s |-> ((((text[1] - 2025) * 365) + DaysBefore(text[2]) + text[3] - 1) * 24 + text[4]) * 3600
            + (text[5] \div 1000000),
     us |-> text[5] % 1000000]

(* storage_batch_from_list raises when the cast of some record raises *)
storage_batch_from_list_raises(data_list) ==
    \E i \in 1..Len(data_list) :
        \/ to_timestamp_raises(data_list[i].start_time)
        \/ to_timestamp_raises(data_list[i].reception_time)

(* storage_batch_from_list: the strings as they are (None stays null), the *)
(* time fields as timestamps, one row per record in the order of the list. *)
(* src is history: the record the row was made from.                       *)
storage_batch_from_list(data_list) ==
    [i \in 1..Len(data_list) |->
        [topic |-> data_list[i].topic,
         start_time |-> to_timestamp(data_list[i].start_time),
         reception_time |-> to_timestamp(data_list[i].reception_time),
         src |-> data_list[i]]]

(* The messages of an Arrow IPC stream *)
SchemaMsg == [k |-> "schema"]
EosMsg == [k |-> "eos"]
BatchMsg(rows) == [k |-> "batch", rows |-> rows]

FileOf(fs, path) == IF path \in DOMAIN fs THEN fs[path] ELSE <<>>

AppendTo(fs, path, msg) ==
    [p \in DOMAIN fs \cup {path} |-> IF p = path THEN Append(FileOf(fs, path), msg)
                                                 ELSE fs[p]]

(* The BatchWriter and the files it works on, as one value *)
(* raised names the exception that left a call, None if none did          *)
WriterState == [pool |-> writer_pool, files |-> files, open |-> open_files,
                peak |-> peak_open, raised |-> None]

(* BatchWriter._close_date: writer.close() writes the end-of-stream marker, *)
(* then the file is flushed and closed                                      *)
_close_date(w, date) ==
    [w EXCEPT !.files = AppendTo(w.files, _path_stub_from_date(date), EosMsg),
              !.open = w.open \ {_path_stub_from_date(date)}]

(* Faulty variant of _get_writer: a date of the pool keeps its place *)
_get_writer_unmoved(w, date, size) ==
    IF \E i \in 1..Len(w.pool) : w.pool[i] = date
    THEN w
    ELSE LET path == _path_stub_from_date(date)
             opened == [w EXCEPT !.files = AppendTo(w.files, path, SchemaMsg),
                                 !.open = w.open \cup {path},
                                 !.peak = Max(w.peak, Cardinality(w.open \cup {path}))]
             room == IF Len(w.pool) >= size
                     THEN [_close_date(opened, Head(w.pool)) EXCEPT !.pool = Tail(w.pool)]
                     ELSE opened
         IN  [room EXCEPT !.pool = Append(room.pool, date)]

(* BatchWriter._get_writer: a date of the pool moves to its end; for any   *)
(* other date the file is opened for appending and a new stream is begun   *)
(* on it (the schema message), and only then, if the pool is full, its     *)
(* oldest date is closed and dropped.                                      *)
_get_writer(w, date, size) ==
    IF \E i \in 1..Len(w.pool) : w.pool[i] = date
    THEN [w EXCEPT !.pool = Append(SelectSeq(w.pool, LAMBDA d : d # date), date)]
    ELSE LET path == _path_stub_from_date(date)
             opened == [w EXCEPT !.files = AppendTo(w.files, path, SchemaMsg),
                                 !.open = w.open \cup {path},
                                 !.peak = Max(w.peak, Cardinality(w.open \cup {path}))]
             room == IF Len(w.pool) >= size
                     THEN [_close_date(opened, Head(w.pool)) EXCEPT !.pool = Tail(w.pool)]
                     ELSE opened
         IN  [room EXCEPT !.pool = Append(room.pool, date)]

(* BatchWriter.write_batch *)
write_batch(w, batch, date, size) ==
    LET got == _get_writer(w, date, size)
    IN  [got EXCEPT !.files = AppendTo(got.files, _path_stub_from_date(date),
                                       BatchMsg(batch))]

(* BatchWriter.close (the exit of the with statement): every date of the   *)
(* pool is closed; the pool itself is left as it is                        *)
RECURSIVE close_from(_, _)
close_from(w, i) ==
    IF i > Len(w.pool) THEN w ELSE close_from(_close_date(w, w.pool[i]), i + 1)

close(w) == close_from(w, 1)

(* run, lines 103-107: one write_batch per partition of data, in the order *)
(* the partitions entered data.  storage_batch_from_list may raise         *)
(* ArrowInvalid; fail is the number of the write_batch call whose          *)
(* writer.write_batch(batch) fails with OSError (0: none fails).  Neither  *)
(* is caught: the partitions that follow are not written.                  *)
RECURSIVE write_partitions(_, _, _, _, _)
write_partitions(w, items, i, size, fail) ==
    IF i > Len(items) THEN w
    ELSE IF storage_batch_from_list_raises(items[i].list)
    THEN [w EXCEPT !.raised = "ArrowInvalid"]
    ELSE IF i = fail
    THEN [_get_writer(w, items[i].date, size) EXCEPT !.raised = "OSError"]
    ELSE write_partitions(
             write_batch(w, storage_batch_from_list(items[i].list), items[i].date, size),
             items, i + 1, size, fail)

(* data[partition].append(point) on the defaultdict(list) *)
data_append(d, partition, point) ==
    IF \E i \in 1..Len(d) : d[i].date = partition
    THEN [i \in 1..Len(d) |->
             IF d[i].date = partition
             THEN [d[i] EXCEPT !.list = Append(d[i].list, point)]
             ELSE d[i]]
    ELSE Append(d, [date |-> partition, list |-> <<point>>])

(* _yield_batches for one file: open_stream reads the schema, then         *)
(* read_next_batch yields batch after batch until it raises StopIteration, *)
(* at the end-of-stream marker or at the end of the file.  A message that  *)
(* cannot be read makes read_next_batch raise err, the exception class the *)
(* library reports for the damage: OSError is caught and the loop goes on  *)
(* with the next message, any other class leaves the generator.  A writer  *)
(* always ends its stream with the marker before another stream is begun   *)
(* on the file, so no schema message is met before a marker.               *)
RECURSIVE batches_from(_, _)
batches_from(file, i) ==
    IF i > Len(file) \/ file[i].k \in {"eos", "schema"}
    THEN [batches |-> <<>>, raised |-> None]
    ELSE IF file[i].k = "batch"
    THEN [batches |-> <<file[i].rows>> \o batches_from(file, i + 1).batches,
          raised |-> batches_from(file, i + 1).raised]
    ELSE IF file[i].err = "OSError"
    THEN batches_from(file, i + 1)
    ELSE [batches |-> <<>>, raised |-> file[i].err]

_yield_batches(file) == batches_from(file, 2)

(* date.toordinal, counted from 2025-01-01, and its inverse *)
toordinal(date) == (date.year - 2025) * 365 + DaysBefore(date.month) + date.day - 1

fromordinal(n) ==
    LET month == CHOOSE m \in 1..12 : DaysBefore(m) <= n /\ n < DaysBefore(m) + DaysIn(m)
    IN  [year |-> 2025, month |-> month, day |-> n - DaysBefore(month) + 1]

(* A datetime is a date with the hour of the day; the hours since          *)
(* 2025-01-01T00                                                            *)
HoursOf(datetime) == toordinal(datetime) * 24 + datetime.hour

(* start_date + timedelta(days=n) *)
plus_days(datetime, n) ==
    [year |-> fromordinal(toordinal(datetime) + n).year,
     month |-> fromordinal(toordinal(datetime) + n).month,
     day |-> fromordinal(toordinal(datetime) + n).day,
     hour |-> datetime.hour]

(* _utils.daterange with day_step 1: start_date + n days for n in          *)
(* range(0, (end_date - start_date).days + 1), .days being the whole days  *)
(* of the difference of the two datetimes                                   *)
daterange(start_date, end_date) ==
    [n \in 1..((HoursOf(end_date) - HoursOf(start_date)) \div 24) + 1 |->
        plus_days(start_date, n - 1)]

(* _files_from_date_range: the paths of the partition files that exist,    *)
(* in the order of daterange                                                *)
_files_from_date_range(fs, date_start, date_end) ==
    SelectSeq([i \in 1..Len(daterange(date_start, date_end)) |->
                  _path_stub_from_date(daterange(date_start, date_end)[i])],
              LAMBDA path : FileOf(fs, path) # <<>>)

RECURSIVE Flatten(_)
Flatten(ss) == IF ss = <<>> THEN <<>> ELSE Head(ss) \o Flatten(Tail(ss))

(* Faulty variant of milliseconds_between: the difference of the whole     *)
(* seconds only                                                             *)
milliseconds_between_seconds(start, end) == (end.s - start.s) * 1000

(* pc.milliseconds_between: the millisecond boundaries crossed from start  *)
(* to end, the difference of the two timestamps cut to whole milliseconds  *)
milliseconds_between(start, end) ==
    (end.s - start.s) * 1000 + (end.us \div 1000) - (start.us \div 1000)

(* pc.divide(pc.cast(ms, float64), 1000.0): seconds, as a fraction *)
divide(ms, by) == [num |-> ms, den |-> by]

(* read_satellite_data with no filter.  An exception that leaves            *)
(* _yield_batches leaves read_satellite_data; pa.Table.from_batches raises *)
(* ValueError when it gets no batch at all (no schema is passed).  Else    *)
(* the rows of every batch of every file of the range, each with its       *)
(* latency.                                                                  *)
read_satellite_data(fs, date_from, date_until) ==
    LET paths == _files_from_date_range(fs, date_from, date_until)
        got == [i \in 1..Len(paths) |-> _yield_batches(FileOf(fs, paths[i]))]
        tbl == Flatten(Flatten([i \in 1..Len(got) |-> got[i].batches]))
    IN  IF \E i \in 1..Len(got) : got[i].raised # None
        THEN [raised |-> got[CHOOSE i \in 1..Len(got) :
                                /\ got[i].raised # None
                                /\ \A j \in 1..(i - 1) : got[j].raised = None].raised,
              rows |-> <<>>]
        ELSE IF \A i \in 1..Len(got) : got[i].batches = <<>>
        THEN [raised |-> "ValueError", rows |-> <<>>]
        ELSE [raised |-> None,
              rows |-> [i \in 1..Len(tbl) |->
                  [topic |-> tbl[i].topic, start_time |-> tbl[i].start_time,
                   reception_time |-> tbl[i].reception_time,
                   latency |-> divide(milliseconds_between(tbl[i].start_time,
                                                           tbl[i].reception_time), 1000),
                   src |-> tbl[i].src]]]

WriterInit ==
    /\ opts = [key |-> None, score |-> None, timeout |-> 0,
               transforms |-> TransformList, servers |-> 2]
    /\ now = 0 /\ sup = "run" /\ rc = Nil /\ alarmAt = Nil /\ idleSince = 0
    /\ emitted = <<>> /\ queue = <<>> /\ delivered = 0
    /\ active_keys = <<>> /\ msg_buffer = EmptyDict
    /\ max_wait = Nil /\ waitFrom = 0 /\ closed = <<>>
    /\ calls = [at |-> 0, n |-> 0, open |-> <<>>, nclosed |-> 0, keyerr |-> FALSE]
    /\ trace = <<>>
    /\ WorkerOff
    /\ EmitOff
    /\ ppc = "run" /\ data = <<>> /\ batch_size = 0 /\ batch_time = 0
    /\ writer_pool = <<>>
    /\ max_size \in 1..MaxPool
    /\ files = <<>> /\ open_files = {} /\ peak_open = 0
    /\ seen = 0 /\ flushes = 0 /\ write_calls = <<>>
    /\ PubOff
    /\ StartOff

(* The process ends: the with statement closes the writer w on the way     *)
(* out, what data holds is gone with the process.  how is "exited" or the  *)
(* exception that ended run().                                              *)
PipelineEnds(how, w) ==
    /\ ppc' = how
    /\ files' = close(w).files
    /\ open_files' = close(w).open
    /\ writer_pool' = w.pool /\ peak_open' = w.peak
    /\ data' = <<>> /\ batch_size' = 0
    /\ UNCHANGED <<max_size, batch_time, write_calls>>

(* One turn of the loop of run() for one line of stdin; elapsed says       *)
(* whether BATCH_MAX_DELAY seconds have passed since the last flush, fail  *)
(* which write of a flush meets an I/O error.  A line without the          *)
(* start_time field makes point[PARTITION_KEY] raise KeyError, a None      *)
(* start_time makes None.decode raise AttributeError; run() catches        *)
(* ValueError only.  n, flush and fields are history: the number of the    *)
(* line, of the flush that is to write the record, and of the fields the   *)
(* line had.                                                                *)
Ingest(line, elapsed, fail) ==
    /\ ppc = "run" /\ seen < MaxPoints
    /\ seen' = seen + 1
    /\ LET point == read_input(line)
       IN  IF "start_time" \notin DOMAIN point
           THEN PipelineEnds("KeyError", WriterState) /\ UNCHANGED flushes
           ELSE IF point.start_time = NoTime
           THEN PipelineEnds("AttributeError", WriterState) /\ UNCHANGED flushes
           ELSE IF fromisoformat_raises(point.start_time)
           THEN UNCHANGED <<ppc, data, batch_size, batch_time, writer_pool, max_size,
                            files, open_files, peak_open, flushes, write_calls>>
           ELSE LET partition == fromisoformat(point.start_time)
                    tagged == [topic |-> point.topic, start_time |-> point.start_time,
                               reception_time |-> point.reception_time,
                               n |-> seen + 1, flush |-> flushes + 1,
                               fields |-> Len(line)]
                    grown == data_append(data, partition, tagged)
                    w == write_partitions(WriterState, grown, 1, max_size, fail)
                IN  IF batch_size + 1 < BatchMaxSize /\ ~elapsed
                    THEN /\ data' = grown /\ batch_size' = batch_size + 1
                         /\ UNCHANGED <<ppc, batch_time, writer_pool, max_size, files,
                                        open_files, peak_open, flushes, write_calls>>
                    ELSE IF w.raised # None
                    THEN PipelineEnds(w.raised, w) /\ flushes' = flushes + 1
                    ELSE /\ data' = <<>> /\ batch_size' = 0 /\ batch_time' = now
                         /\ writer_pool' = w.pool /\ files' = w.files
                         /\ open_files' = w.open /\ peak_open' = w.peak
                         /\ flushes' = flushes + 1
                         /\ UNCHANGED <<ppc, max_size, write_calls>>
    /\ UNCHANGED <<amqpVars, workerVars, emitVars, pubVars, startVars>>

(* stdin ends: the loop is left and run() returns *)
EndOfInput ==
    /\ ppc = "run"
    /\ PipelineEnds("exited", WriterState)
    /\ UNCHANGED <<seen, flushes, amqpVars, workerVars, emitVars, pubVars, startVars>>

(* The pipeline is started again on the same LATENCY_DIR *)
Restart ==
    /\ ppc \notin {"off", "run"} /\ seen < MaxPoints
    /\ ppc' = "run" /\ writer_pool' = <<>> /\ batch_time' = now
    /\ UNCHANGED <<data, batch_size, max_size, files, open_files, peak_open,
                   seen, flushes, write_calls, amqpVars, workerVars, emitVars, pubVars, startVars>>

WriterNext ==
    \/ \E line \in Lines, elapsed \in BOOLEAN, fail \in 0..BatchMaxSize :
          Ingest(line, elapsed, fail)
    \/ EndOfInput
    \/ Restart

WriterSpec == WriterInit /\ [][WriterNext]_vars

(* The pipeline with its clock: time.time() is now, and a line finds       *)
(* BATCH_MAX_DELAY elapsed when now - batch_time has reached it.  run()    *)
(* looks at the clock only after it has read a line.                        *)
PipelineTick ==
    /\ ppc = "run" /\ now < MaxTime
    /\ now' = now + 1
    /\ UNCHANGED <<opts, sup, rc, alarmAt, idleSince, emitted, queue, delivered,
                   active_keys, msg_buffer, max_wait, waitFrom, closed, calls, trace,
                   extVars>>

FlushNext ==
    \/ \E line \in Lines : Ingest(line, now - batch_time >= BatchMaxDelay, 0)
    \/ PipelineTick
    \/ EndOfInput
    \/ Restart

FlushSpec == WriterInit /\ [][FlushNext]_vars

---------------------------------------------------------------------------
(* The BatchWriter seen on its own: write_batch calls for any dates, then  *)
(* close()                                                                 *)

(* The most write_batch calls made on the writer *)
MaxWrites == 4

(* The dates write_batch is called with *)
WriteDates ==
    {fromisoformat(t) : t \in {st \in StartTimes : ~fromisoformat_raises(st)}}

PoolInit ==
    /\ opts = [key |-> None, score |-> None, timeout |-> 0,
               transforms |-> TransformList, servers |-> 2]
    /\ now = 0 /\ sup = "run" /\ rc = Nil /\ alarmAt = Nil /\ idleSince = 0
    /\ emitted = <<>> /\ queue = <<>> /\ delivered = 0
    /\ active_keys = <<>> /\ msg_buffer = EmptyDict
    /\ max_wait = Nil /\ waitFrom = 0 /\ closed = <<>>
    /\ calls = [at |-> 0, n |-> 0, open |-> <<>>, nclosed |-> 0, keyerr |-> FALSE]
    /\ trace = <<>>
    /\ WorkerOff
    /\ EmitOff
    /\ ppc = "writer" /\ data = <<>> /\ batch_size = 0 /\ batch_time = 0
    /\ writer_pool = <<>>
    /\ max_size \in 1..MaxPool
    /\ files = <<>> /\ open_files = {} /\ peak_open = 0
    /\ seen = 0 /\ flushes = 0 /\ write_calls = <<>>
    /\ PubOff
    /\ StartOff

(* BatchWriter.write_batch(batch, date), the batch having one row that      *)
(* tells the number of the call                                            *)
WriteBatch ==
    /\ ppc = "writer" /\ Len(write_calls) < MaxWrites
    /\ \E date \in WriteDates :
          LET w == write_batch(WriterState, <<[n |-> Len(write_calls) + 1]>>, date, max_size)
          IN  /\ writer_pool' = w.pool /\ files' = w.files
              /\ open_files' = w.open /\ peak_open' = w.peak
              /\ write_calls' = Append(write_calls, date)
    /\ UNCHANGED <<ppc, data, batch_size, batch_time, max_size, seen, flushes,
                   amqpVars, workerVars, emitVars, pubVars, startVars>>

(* BatchWriter.close() *)
CloseWriter ==
    /\ ppc = "writer"
    /\ ppc' = "closed"
    /\ files' = close(WriterState).files
    /\ open_files' = close(WriterState).open
    /\ UNCHANGED <<data, batch_size, batch_time, writer_pool, max_size, peak_open, seen,
                   flushes, write_calls, amqpVars, workerVars, emitVars, pubVars,
                   startVars>>

PoolNext ==
    \/ WriteBatch
    \/ CloseWriter

PoolSpec == PoolInit /\ [][PoolNext]_vars

---------------------------------------------------------------------------
(* The publisher command quickmq (quickmq/src/ssec_amqp/main.py): the      *)
(* command line, the one-shot mode (-D with a JSON object that is not      *)
(* empty) and the stream mode (JSON lines on stdin).  The client library   *)
(* (AmqpClient, its connections and publish) is not part of the sources;   *)
(* it is taken from the specification's section 4.G.  A text (an option    *)
(* value, a topic) is the sequence of its characters.                      *)

(* The targets of -H and -C, by their identity *)
Targets == {"amqp://mqA", "amqp://mqB", "Cluster(mqC,mqD)"}

(* The most lines the stream mode reads from stdin *)
MaxLines == 2

(* -T: topics without '{', with one replacement field, with an indexed one *)
(* and with two fields                                                     *)
TopicFormats ==
    {<<"a", ".", "b">>,
     <<"a", "}">>,
     <<"{", "t", "}", ".", "b">>,
     <<"{", "t", "[", "k", "]", "}", ".", "b">>,
     <<"{", "u", "}", ".", "b">>,
     <<"a", ".", "{", "t", "}", "{", "u", "}">>}

(* -m: the texts handed to key_value_type, one after -m *)
MetadataTexts ==
    {<<"u", "=", "w">>, <<"u", "=">>, <<"u">>, <<>>, <<"=", "w">>,
     <<"u", "=", "w", "=", "x">>}

MetadataLists == {<<>>} \cup {<<m>> : m \in MetadataTexts}

(* A JSON string and a JSON object as Python values *)
PyStr(text) == [kind |-> "str", text |-> text]

PyDict(d) == [kind |-> "dict", at |-> d]

(* The JSON objects of -D and of the lines of stdin, key -> value *)
PubData ==
    {<<>>,
     <<"t">> :> PyStr(<<"v">>),
     <<"t">> :> PyDict(<<"k">> :> PyStr(<<"v">>))}

(* The JSON texts of -D and of the lines of stdin, by what they decode to *)
JsonTexts ==
    {[kind |-> "object", value |-> d] : d \in PubData}
        \cup {[kind |-> "list"], [kind |-> "invalid"]}

(* sys.argv: -D absent, or its text *)
PubArgv ==
    [targets : SUBSET Targets \ {{}}, fast_fail : BOOLEAN, topic : TopicFormats,
     metadata : MetadataLists, data : {[kind |-> "absent"]} \cup JsonTexts]

(* str.find: the first place of ch in s at or after i, 0 if there is none *)
RECURSIVE find(_, _, _)
find(s, ch, i) ==
    IF i > Len(s) THEN 0
    ELSE IF s[i] = ch THEN i
    ELSE find(s, ch, i + 1)

(* str.rfind: the last place of ch in s at or before i, 0 if there is none *)
RECURSIVE rfind(_, _, _)
rfind(s, ch, i) ==
    IF i < 1 THEN 0
    ELSE IF s[i] = ch THEN i
    ELSE rfind(s, ch, i - 1)

(* Faulty variant of partition: the split at the last sep (rpartition) *)
partition_last(s, sep) ==
    LET i == rfind(s, sep, Len(s))
    IN  IF i = 0 THEN <<s, <<>>, <<>>>>
        ELSE <<SubSeq(s, 1, i - 1), <<sep>>, SubSeq(s, i + 1, Len(s))>>

(* str.partition(sep): the text before the first sep, sep, the text after *)
partition(s, sep) ==
    LET i == find(s, sep, 1)
    IN  IF i = 0 THEN <<s, <<>>, <<>>>>
        ELSE <<SubSeq(s, 1, i - 1), <<sep>>, SubSeq(s, i + 1, Len(s))>>

(* key_value_type: if not eq or not val: raise ValueError *)
key_value_type_raises(val) ==
    partition(val, "=")[2] = <<>> \/ partition(val, "=")[3] = <<>>

key_value_type(val) == <<partition(val, "=")[1], partition(val, "=")[3]>>

(* parse_args: argparse ends the process with parser.error (status 2) when *)
(* a type function raises ValueError, when -D is not JSON and when it is   *)
(* not a JSON object                                                       *)
parse_args_raises(av) ==
    \/ \E i \in 1..Len(av.metadata) : key_value_type_raises(av.metadata[i])
    \/ av.data.kind \in {"list", "invalid"}

parse_args(av) ==
    [targets |-> av.targets, fast_fail |-> av.fast_fail, topic |-> av.topic,
     metadata |-> [i \in 1..Len(av.metadata) |-> key_value_type(av.metadata[i])],
     data |-> av.data]

(* if args.data: None (no -D) and the empty object are false *)
truth(value) == value.kind = "object" /\ DOMAIN value.value # {}

(* data.update(args.metadata): every value of -m is a str *)
RECURSIVE update_pairs(_, _)
update_pairs(d, pairs) ==
    IF pairs = <<>> THEN d
    ELSE update_pairs([k \in DOMAIN d \cup {Head(pairs)[1]} |->
                          IF k = Head(pairs)[1] THEN PyStr(Head(pairs)[2]) ELSE d[k]],
                      Tail(pairs))

(* str(value), what a replacement field without a format spec writes *)
str(value) ==
    IF value.kind = "str" THEN value.text
    ELSE LET k == CHOOSE k \in DOMAIN value.at : TRUE
         IN  <<"{", "'">> \o k \o <<"'", ":", " ", "'">> \o value.at[k].text \o <<"'", "}">>

Returned(text) == [raised |-> None, text |-> text]

Raised(exc) == [raised |-> exc, text |-> <<>>]

(* One replacement field, name or name[index]: the lookup in the mapping,  *)
(* then the lookup of the index in what was found.  KeyError for a name or *)
(* an index that is absent, TypeError for the index of a str.              *)
get_field(field, d) ==
    LET open == find(field, "[", 1)
        name == IF open = 0 THEN field ELSE SubSeq(field, 1, open - 1)
        index == SubSeq(field, open + 1, Len(field) - 1)
    IN  IF name \notin DOMAIN d THEN Raised("KeyError")
        ELSE IF open = 0 THEN Returned(str(d[name]))
        ELSE IF d[name].kind = "str" THEN Raised("TypeError")
        ELSE IF index \notin DOMAIN d[name].at THEN Raised("KeyError")
        ELSE Returned(str(d[name].at[index]))

(* str.format_map(data), from the left: literal text is copied, a field is *)
(* looked up, a '{' without its '}' and a '}' on its own are a ValueError  *)
RECURSIVE format_map(_, _)
format_map(fmt, d) ==
    IF fmt = <<>> THEN Returned(<<>>)
    ELSE IF Head(fmt) = "}" THEN Raised("ValueError")
    ELSE IF Head(fmt) # "{"
    THEN LET rest == format_map(Tail(fmt), d)
         IN  IF rest.raised # None THEN rest ELSE Returned(<<Head(fmt)>> \o rest.text)
    ELSE LET shut == find(fmt, "}", 1)
         IN  IF shut = 0 THEN Raised("ValueError")
             ELSE LET value == get_field(SubSeq(fmt, 2, shut - 1), d)
                      rest == format_map(SubSeq(fmt, shut + 1, Len(fmt)), d)
                  IN  IF value.raised # None THEN value
                      ELSE IF rest.raised # None THEN rest
                      ELSE Returned(value.text \o rest.text)

(* Faulty variant of hydrate_topic: format_map for every topic format *)
hydrate_topic_always_formats(topic_fmt, d) == format_map(topic_fmt, d)

(* hydrate_topic: the topic itself when it has no '{', format_map otherwise *)
hydrate_topic(topic_fmt, d) ==
    IF \A i \in 1..Len(topic_fmt) : topic_fmt[i] # "{" THEN Returned(topic_fmt)
    ELSE format_map(topic_fmt, d)

(* client.publish, from the specification: a mapping from target identity  *)
(* to delivery status; a target that is not connected drops the message,   *)
(* a connected one has it accepted or rejected by its broker               *)
publish(conns, broker) ==
    [t \in DOMAIN conns |-> IF conns[t] = "CONNECTED" THEN broker[t] ELSE "DROPPED"]

(* ret_status = all(st in (REJECTED, DROPPED) for st in pub_status);       *)
(* return int(ret_status).  Iterating a mapping yields its keys.           *)
ret_status(status) ==
    IF \A st \in DOMAIN status : st \in {"REJECTED", "DROPPED"} THEN 1 ELSE 0

(* Faulty variant of fast_fail: one reconnecting target is enough *)
fast_fail_any(a, conns) ==
    a.fast_fail /\ \E t \in DOMAIN conns : conns[t] = "RECONNECTING"

(* args.fast_fail and all(val == RECONNECTING for val in                   *)
(* client.connections.values())                                            *)
fast_fail(a, conns) ==
    a.fast_fail /\ \A t \in DOMAIN conns : conns[t] = "RECONNECTING"

PubInit ==
    /\ opts = [key |-> None, score |-> None, timeout |-> 0,
               transforms |-> TransformList, servers |-> 2]
    /\ now = 0 /\ sup = "run" /\ rc = Nil /\ alarmAt = Nil /\ idleSince = 0
    /\ emitted = <<>> /\ queue = <<>> /\ delivered = 0
    /\ active_keys = <<>> /\ msg_buffer = EmptyDict
    /\ max_wait = Nil /\ waitFrom = 0 /\ closed = <<>>
    /\ calls = [at |-> 0, n |-> 0, open |-> <<>>, nclosed |-> 0, keyerr |-> FALSE]
    /\ trace = <<>>
    /\ WorkerOff
    /\ EmitOff
    /\ WriterOff
    /\ StartOff
    /\ argv \in PubArgv
    /\ qpc = "parse"
    /\ args = <<>> /\ connections = <<>> /\ pub_status = <<>> /\ ret = Nil
    /\ lines_read = 0 /\ published = <<>> /\ disconnected = FALSE

(* args = parse_args() *)
ParseArgs ==
    /\ qpc = "parse"
    /\ IF parse_args_raises(argv)
       THEN qpc' = "parser.error" /\ ret' = 2 /\ UNCHANGED args
       ELSE qpc' = "connect" /\ args' = parse_args(argv) /\ UNCHANGED ret
    /\ UNCHANGED <<argv, connections, pub_status, lines_read, published, disconnected,
                   amqpVars, workerVars, emitVars, writerVars, startVars>>

(* client_from_uris: every target is connected to; when connect returns    *)
(* the target is connected, still reconnecting, or given up (disconnected) *)
ClientFromUris ==
    /\ qpc = "connect"
    /\ connections' \in [args.targets -> {"CONNECTED", "RECONNECTING", "DISCONNECTED"}]
    /\ qpc' = "check"
    /\ UNCHANGED <<argv, args, pub_status, ret, lines_read, published, disconnected,
                   amqpVars, workerVars, emitVars, writerVars, startVars>>

(* main() after the connections: the fast-fail test, then, if args.data,   *)
(* the quick publish and its exit status, else the entry into the loop     *)
(* over stdin.  Nothing catches an exception of hydrate_topic in the quick *)
(* publish: the interpreter ends with status 1.  broker says what the      *)
(* broker of each connected target does with the message.                  *)
QuickPublish ==
    /\ qpc = "check"
    /\ IF fast_fail(args, connections)
       THEN qpc' = "fast-fail" /\ ret' = 1 /\ UNCHANGED <<pub_status, published>>
       ELSE IF ~truth(args.data)
       THEN qpc' = "stream" /\ UNCHANGED <<ret, pub_status, published>>
       ELSE LET d == update_pairs(args.data.value, args.metadata)
                topic == hydrate_topic(args.topic, d)
            IN  IF topic.raised # None
                THEN qpc' = topic.raised /\ ret' = 1 /\ UNCHANGED <<pub_status, published>>
                ELSE \E broker \in [DOMAIN connections -> {"ACCEPTED", "REJECTED"}] :
                        /\ pub_status' = publish(connections, broker)
                        /\ published' = Append(published, [topic |-> topic.text, data |-> d])
                        /\ ret' = ret_status(publish(connections, broker))
                        /\ qpc' = "return"
    /\ UNCHANGED <<argv, args, connections, lines_read, disconnected,
                   amqpVars, workerVars, emitVars, writerVars, startVars>>

(* How the loop over stdin is left by an exception that main() does not    *)
(* catch: finally: client.disconnect(), then the traceback and status 1    *)
StreamRaises(exc) ==
    /\ qpc' = exc /\ ret' = 1 /\ disconnected' = TRUE
    /\ UNCHANGED <<pub_status, published>>

(* One turn of 'for line in iter(sys.stdin.readline, "")' *)
StreamLine ==
    /\ qpc = "stream" /\ lines_read < MaxLines
    /\ lines_read' = lines_read + 1
    /\ \E line \in JsonTexts :
          IF json_loads(line).raised THEN StreamRaises("ValueError")
          ELSE IF json_loads(line).content.kind # "object" THEN StreamRaises("AttributeError")
          ELSE LET d == update_pairs(line.value, args.metadata)
                   topic == hydrate_topic(args.topic, d)
               IN  IF topic.raised = "KeyError"
                   THEN UNCHANGED <<qpc, ret, disconnected, pub_status, published>>
                   ELSE IF topic.raised # None THEN StreamRaises(topic.raised)
                   ELSE \E broker \in [DOMAIN connections -> {"ACCEPTED", "REJECTED"}] :
                           /\ pub_status' = publish(connections, broker)
                           /\ published' = Append(published, [topic |-> topic.text, data |-> d])
                           /\ UNCHANGED <<qpc, ret, disconnected>>
    /\ UNCHANGED <<argv, args, connections, amqpVars, workerVars, emitVars, writerVars, startVars>>

(* The ways out of the loop that main() provides for: readline returns ""  *)
(* (return 0 after the try), KeyboardInterrupt (return 0), BrokenPipeError *)
(* (return 1); finally: client.disconnect() in each                        *)
StreamEnds ==
    /\ qpc = "stream"
    /\ \E how \in {"EOF", "KeyboardInterrupt", "BrokenPipeError"} :
          /\ qpc' = how
          /\ ret' = IF how = "BrokenPipeError" THEN 1 ELSE 0
    /\ disconnected' = TRUE
    /\ UNCHANGED <<argv, args, connections, pub_status, lines_read, published,
                   amqpVars, workerVars, emitVars, writerVars, startVars>>

PubNext ==
    \/ ParseArgs
    \/ ClientFromUris
    \/ QuickPublish
    \/ StreamLine
    \/ StreamEnds

PubSpec == PubInit /\ [][PubNext]_vars

---------------------------------------------------------------------------
(* The start of amqpfind: main() from the parsed options to the server     *)
(* list (zap), the publish mode -P and the choice between single_main and  *)
(* multi_main.                                                             *)

(* The most values one repeatable option is given *)
MaxValues == 3

(* The repeatable options in the order main() hands them to zap, by dest *)
Repeatable == <<"hosts", "exchanges", "users", "passwds", "consumes", "durables">>

(* The values of -H, -X, -u, -p, -C, -D on the command line, in order *)
OptionValues ==
    [hosts |-> <<"mqA", "mqB", "mqC", "mqD">>,
     exchanges |-> <<"x1", "x2", "x3", "x4">>,
     users |-> <<"u1", "u2", "u3", "u4">>,
     passwds |-> <<"p1", "p2", "p3", "p4">>,
     consumes |-> <<"c1", "c2", "c3", "c4">>,
     durables |-> <<"@", "q2", "q3", "q4">>]

(* The dest names parser.parse_args() sets on opts *)
OptionDests ==
    {"verbosity", "debug", "hosts", "exchanges", "users", "passwds", "consumes",
     "durables", "produce", "json", "callback", "transforms", "timeout", "id",
     "window", "key", "score"}

(* opts.name raises AttributeError for a name that is no dest *)
getattr_raises(name) == name \notin OptionDests

(* The command lines: how many values each repeatable option has (an       *)
(* option not given is None, zap takes it as the empty list), -P, -k, and  *)
(* what stdin holds                                                        *)
CmdLines ==
    [given : [DOMAIN OptionValues -> 0..MaxValues],
     produce : {None, "geo.file"},
     key : {None, "sat"},
     stdin : {[kind |-> "object", value |-> Body1], [kind |-> "invalid"]}]

(* opts.<dest> of a repeatable option as zap lists it *)
OptionList(c, dest) == SubSeq(OptionValues[dest], 1, c.given[dest])

(* Faulty variant of zap: a list of any other length is padded with its     *)
(* last value                                                              *)
zap_lenient(seqs) ==
    LET iters == CHOOSE n \in 0..Len(OptionValues.hosts) :
                     /\ \A k \in DOMAIN seqs : Len(seqs[k]) <= n
                     /\ \E k \in DOMAIN seqs : Len(seqs[k]) = n
    IN  [raised |-> None,
         tuples |-> [i \in 1..iters |->
                        [k \in DOMAIN seqs |->
                            IF Len(seqs[k]) = 0 THEN None
                            ELSE IF Len(seqs[k]) = 1 THEN seqs[k][1]
                            ELSE IF i <= Len(seqs[k]) THEN seqs[k][i]
                            ELSE seqs[k][Len(seqs[k])]]]]

(* zap: iters = max(len), and in every round None for an empty list, the   *)
(* one value of a list of one, the i-th value of a list of iters values;   *)
(* ValueError in the first round for any other length                      *)
zap(seqs) ==
    LET iters == CHOOSE n \in 0..Len(OptionValues.hosts) :
                     /\ \A k \in DOMAIN seqs : Len(seqs[k]) <= n
                     /\ \E k \in DOMAIN seqs : Len(seqs[k]) = n
    IN  IF \E k \in DOMAIN seqs : Len(seqs[k]) \notin {0, 1, iters}
        THEN [raised |-> "ValueError", tuples |-> <<>>]
        ELSE [raised |-> None,
              tuples |-> [i \in 1..iters |->
                             [k \in DOMAIN seqs |->
                                 IF Len(seqs[k]) = 0 THEN None
                                 ELSE IF Len(seqs[k]) = 1 THEN seqs[k][1]
                                 ELSE seqs[k][i]]]]

(* servers.append(dict(host=host, exchange=exchange, user=user,            *)
(* password=passwd, key=consume, ..., durable=True if durable=="@" else    *)
(* durable))                                                               *)
server_dict(z) ==
    [host |-> z[1], exchange |-> z[2], user |-> z[3], password |-> z[4], key |-> z[5],
     durable |-> IF z[6] = "@" THEN "True" ELSE z[6]]

StartInit ==
    /\ opts = [key |-> None, score |-> None, timeout |-> 0,
               transforms |-> TransformList, servers |-> 2]
    /\ now = 0 /\ sup = "run" /\ rc = Nil /\ alarmAt = Nil /\ idleSince = 0
    /\ emitted = <<>> /\ queue = <<>> /\ delivered = 0
    /\ active_keys = <<>> /\ msg_buffer = EmptyDict
    /\ max_wait = Nil /\ waitFrom = 0 /\ closed = <<>>
    /\ calls = [at |-> 0, n |-> 0, open |-> <<>>, nclosed |-> 0, keyerr |-> FALSE]
    /\ trace = <<>>
    /\ WorkerOff
    /\ EmitOff
    /\ WriterOff
    /\ PubOff
    /\ cmdline \in CmdLines
    /\ servers = <<>> /\ mpc = "start" /\ main_rc = Nil
    /\ produced = <<>> /\ contacted = {}

(* servers = []; for ... in zap(opts.hosts, ...): servers.append(...).     *)
(* Nothing catches the ValueError of zap: traceback and status 1.          *)
BuildServers ==
    /\ mpc = "start"
    /\ LET z == zap([k \in 1..Len(Repeatable) |-> OptionList(cmdline, Repeatable[k])])
       IN  IF z.raised # None
           THEN mpc' = z.raised /\ main_rc' = 1 /\ UNCHANGED servers
           ELSE /\ servers' = [i \in 1..Len(z.tuples) |-> server_dict(z.tuples[i])]
                /\ mpc' = "servers"
                /\ UNCHANGED main_rc
    /\ UNCHANGED <<cmdline, produced, contacted, amqpVars, workerVars, emitVars,
                   writerVars, pubVars>>

(* if opts.produce is not None: assert(len(servers)==1); the session is    *)
(* opened, stdin is read and decoded, and session.produce is called with   *)
(* key=opts.produce, exchange=opts.exchange; produce publishes to          *)
(* 'exchange or self.exchange' under 'key or self.key'.  An exception ends *)
(* main() with a traceback and status 1.                                   *)
Produce ==
    /\ mpc = "servers" /\ cmdline.produce # None
    /\ IF Len(servers) # 1
       THEN mpc' = "AssertionError" /\ main_rc' = 1 /\ UNCHANGED <<produced, contacted>>
       ELSE /\ contacted' = {servers[1].host}
            /\ IF json_loads(cmdline.stdin).raised
               THEN mpc' = "ValueError" /\ main_rc' = 1 /\ UNCHANGED produced
               ELSE IF getattr_raises("exchange")
               THEN mpc' = "AttributeError" /\ main_rc' = 1 /\ UNCHANGED produced
               ELSE /\ produced' = Append(produced,
                                      [exchange |-> servers[1].exchange,
                                       key |-> cmdline.produce,
                                       content |-> json_loads(cmdline.stdin).content])
                    /\ mpc' = "return" /\ main_rc' = 0
    /\ UNCHANGED <<cmdline, servers, amqpVars, workerVars, emitVars, writerVars, pubVars>>

(* Without -P: one server is the classical configuration (single_main,     *)
(* refused with status 1 when -k, -w or -s is given), any other number is  *)
(* multi_main with one worker per server; each opens its connection        *)
StartConsuming ==
    /\ mpc = "servers" /\ cmdline.produce = None
    /\ IF Len(servers) = 1 /\ cmdline.key # None
       THEN mpc' = "refused" /\ main_rc' = 1 /\ UNCHANGED contacted
       ELSE /\ mpc' = IF Len(servers) = 1 THEN "single_main" ELSE "multi_main"
            /\ contacted' = {servers[i].host : i \in 1..Len(servers)}
            /\ UNCHANGED main_rc
    /\ UNCHANGED <<cmdline, servers, produced, amqpVars, workerVars, emitVars,
                   writerVars, pubVars>>

StartNext ==
    \/ BuildServers
    \/ Produce
    \/ StartConsuming

StartSpec == StartInit /\ [][StartNext]_vars


---------------------------------------------------------------------------
(* Properties *)

EmittedIdx == 1..Len(emitted)
ClosedIdx == 1..Len(closed)
BufferedIds == UNION {{e.n : e \in Range(msg_buffer[k])} : k \in DOMAIN msg_buffer}

(* C1: in Race mode, after an event with key k is emitted, no other event    *)
(* with key k is emitted within Horizon seconds of that emit, whatever the   *)
(* delay between the worker's reception and the dispatcher's processing.     *)
C1_NoRepeatWithinHorizon ==
    RaceMode(opts) =>
        \A i, j \in EmittedIdx :
            (i < j /\ emitted[i].key = emitted[j].key)
                => emitted[j].out.at > emitted[i].out.at + Horizon

(* C2: in Compete mode every closed window produces exactly one emit, the    *)
(* emitted payload is that of one of the candidates buffered under the       *)
(* window's key, and after the close neither the candidates nor the key      *)
(* remain in the dispatcher (a key that is open right after the call that    *)
(* closed it was opened anew by that call's own event).                      *)
C2_ClosedWindowEmitsOneCandidate ==
    CompeteMode(opts) =>
        /\ Len(emitted) = Len(closed)
        /\ DOMAIN msg_buffer = KeysOf(active_keys)
        /\ \A i \in ClosedIdx :
            LET c == closed[i]  e == emitted[i]
            IN  /\ c.winner \in Range(c.cands)
                /\ \A x \in Range(c.cands) :
                       /\ key_for_msg(opts, x.msg) = c.key
                       /\ x.n \notin BufferedIds
                /\ e.n = c.winner.n /\ e.key = c.key /\ e.out.at = c.at
                /\ e.out.topic = c.winner.routing_key
                /\ \A f \in DOMAIN c.winner.msg : e.out.msg[f] = c.winner.msg[f]
                /\ (i > calls.nclosed /\ c.key \in KeysOf(active_keys))
                       => /\ calls.n # 0
                          /\ Len(msg_buffer[c.key]) = 1
                          /\ msg_buffer[c.key][1].n = calls.n

(* Witness of C2: a window with two candidates has been closed *)
C2_Witness ==
    /\ CompeteMode(opts)
    /\ \E i \in ClosedIdx : Len(closed[i].cands) = 2 /\ emitted[i].n = closed[i].winner.n

(* C3: with a scalar score expression the candidate emitted for a closed     *)
(* window has a score at least that of every candidate of the window.        *)
C3_ScalarWinnerIsMaximal ==
    (CompeteMode(opts) /\ opts.score # "lambda") =>
        \A i \in ClosedIdx :
            /\ i <= Len(emitted)
            /\ emitted[i].n = closed[i].winner.n
            /\ \A x \in Range(closed[i].cands) :
                   score_for_msg(opts, emitted[i].out.msg) >= score_for_msg(opts, x.msg)

(* Witness of C3: a closed window whose winner scored strictly more than     *)
(* the candidate that arrived first.                                         *)
C3_Witness ==
    /\ CompeteMode(opts) /\ opts.score # "lambda"
    /\ \E i \in ClosedIdx :
          /\ Len(closed[i].cands) = 2
          /\ score_for_msg(opts, closed[i].cands[1].msg)
                 < score_for_msg(opts, emitted[i].out.msg)

(* The left fold of the user's comparator over a list of candidates *)
RECURSIVE FoldLambda(_, _)
FoldLambda(acc, s) ==
    IF s = <<>> THEN acc ELSE FoldLambda(UserLambda(acc, Head(s)), Tail(s))
ArrivalFold(cands) == FoldLambda(Head(cands), Tail(cands))
Reordered(cands, p) == [i \in 1..Len(cands) |-> cands[p[i]]]

(* C4 as stated: with a binary comparator the winner of a window is the left *)
(* fold of the comparator over the candidates in arrival order, so what is   *)
(* emitted for the window is that candidate's payload.                       *)
C4_WinnerIsArrivalOrderFold ==
    (CompeteMode(opts) /\ opts.score = "lambda") =>
        \A i \in ClosedIdx :
            \A f \in DOMAIN ArrivalFold(closed[i].cands).msg :
                emitted[i].out.msg[f] = ArrivalFold(closed[i].cands).msg[f]

(* C4 amended: with a binary comparator the winner of a window is the left   *)
(* fold of the comparator over the candidates in some order (the one the     *)
(* shuffle left them in), and it is the emitted event.                       *)
C4_WinnerIsFoldOfSomeOrder ==
    (CompeteMode(opts) /\ opts.score = "lambda") =>
        \A i \in ClosedIdx :
            /\ \E p \in Perms(Len(closed[i].cands)) :
                   closed[i].winner = ArrivalFold(Reordered(closed[i].cands, p))
            /\ i <= Len(emitted) /\ emitted[i].n = closed[i].winner.n

(* Witness of C4: a closed window of two candidates whose winner is not the  *)
(* arrival-order fold.                                                       *)
C4_Witness ==
    /\ CompeteMode(opts) /\ opts.score = "lambda"
    /\ \E i \in ClosedIdx :
          /\ Len(closed[i].cands) = 2
          /\ closed[i].winner.msg # ArrivalFold(closed[i].cands).msg
          /\ emitted[i].n = closed[i].winner.n

(* The windows the last dispatcher call closed *)
ClosedByLastCall == {i \in ClosedIdx : i > calls.nclosed}

(* C5 as stated: every dispatcher call closes every window that was open     *)
(* with now >= opened_at + horizon, the boundary instant included.           *)
C5_ClosesFromBoundary ==
    \A e \in Range(calls.open) :
        calls.at >= e.when + Horizon
            => \E i \in ClosedByLastCall :
                   closed[i].key = e.key /\ closed[i].when = e.when

(* C5 amended: every dispatcher call (with an event or as a tick) closes,    *)
(* before it dispatches its event, every window that was open with           *)
(* now > opened_at + horizon, and leaves open every window with              *)
(* now <= opened_at + horizon; in Compete mode the closed window's winner is *)
(* emitted, in Race mode the key is removed without an emit.                 *)
C5_ClosesPastBoundary ==
    \A e \in Range(calls.open) :
        /\ calls.at > e.when + Horizon
            => \E i \in ClosedByLastCall :
                /\ closed[i].key = e.key /\ closed[i].when = e.when
                /\ closed[i].at = calls.at
                /\ CompeteMode(opts) =>
                      \E j \in EmittedIdx :
                          /\ emitted[j].n = closed[i].winner.n
                          /\ emitted[j].out.at = calls.at
                          /\ emitted[j].key = e.key
                /\ RaceMode(opts) => closed[i].winner = NoEvent
                /\ e.key \in KeysOf(active_keys) =>
                      /\ calls.n # 0
                      /\ RaceMode(opts) =>
                            \E j \in EmittedIdx :
                                /\ emitted[j].n = calls.n /\ emitted[j].key = e.key
                                /\ emitted[j].out.at = calls.at
                                /\ WhenOf(active_keys, e.key) = emitted[j].when
                      /\ CompeteMode(opts) =>
                            /\ Len(msg_buffer[e.key]) = 1
                            /\ msg_buffer[e.key][1].n = calls.n
                            /\ WhenOf(active_keys, e.key) = msg_buffer[e.key][1].when
        /\ calls.at <= e.when + Horizon
            => /\ e \in Range(active_keys)
               /\ \A i \in ClosedByLastCall : closed[i].key # e.key

(* Witness of C5: a call with an event closed an expired window of the       *)
(* event's own key and opened the key anew.                                  *)
C5_Witness ==
    \E e \in Range(calls.open) :
        /\ calls.at > e.when + Horizon
        /\ calls.n # 0
        /\ e.key \in KeysOf(active_keys)
        /\ \E i \in ClosedByLastCall : closed[i].key = e.key

(* The wait bound the last dispatcher call returned keeps queue.get from     *)
(* blocking past the earliest window deadline: it is nil only when no window *)
(* is open, and otherwise get returns no later than min(opened_at) + horizon *)
(* (at once when that deadline has passed).                                  *)
WaitBoundOk ==
    opts.servers > 1 =>
        /\ max_wait = Nil => active_keys = <<>>
        /\ active_keys # <<>> =>
              /\ max_wait # Nil /\ max_wait >= 0
              /\ waitFrom + max_wait <= Max(waitFrom, MinWhen(active_keys) + Horizon)

(* Candidate n was in a window that was closed with its winner emitted *)
ClosedWith(n) ==
    \E i \in ClosedIdx :
        /\ n \in {x.n : x \in Range(closed[i].cands)}
        /\ i <= Len(emitted) /\ emitted[i].n = closed[i].winner.n

(* C6: after every dispatcher call the wait bound is nil only when no window *)
(* is open and otherwise does not reach past the earliest window deadline;   *)
(* so in Compete mode every window that was opened is closed and its winner  *)
(* emitted, also when no further event arrives, as long as the supervisor    *)
(* runs.                                                                     *)
C6_WaitBoundClosesWindows ==
    /\ []WaitBoundOk
    /\ \A n \in 1..MaxMsgs :
          (CompeteMode(opts) /\ n \in BufferedIds) ~> (ClosedWith(n) \/ sup # "run")

(* Witness of C6: two windows are open, the wait bound is that of the        *)
(* earlier one, and the queue is empty.                                      *)
C6_Witness ==
    /\ CompeteMode(opts) /\ sup = "run" /\ queue = <<>>
    /\ Len(active_keys) = 2
    /\ active_keys[1].when # active_keys[2].when
    /\ max_wait # Nil
    /\ waitFrom + max_wait = MinWhen(active_keys) + Horizon

(* C7: when the supervisor stops on a shutdown signal (interrupt or          *)
(* terminate), every Compete window that was open has had one of its         *)
(* candidates emitted before the exit; in Race mode the open keys are        *)
(* dropped without an emit.                                                  *)
C7_ShutdownFlushesWindows ==
    (opts.servers > 1 /\ sup \in {"interrupt", "killed"} /\ CompeteMode(opts)) =>
        \A e \in Range(active_keys) :
            \E j \in EmittedIdx :
                emitted[j].n \in {x.n : x \in Range(msg_buffer[e.key])}

(* The metadata fields the emitter is to find in every payload *)
MetadataKeys == {"__topic__", "__reception_time__", "__reception_host__"}

(* C8: every payload handed to the emitter, in single and in multi mode, has *)
(* the three metadata fields; every field of the delivered body has kept its *)
(* value (enrichment overwrites nothing); a metadata field the body lacked   *)
(* holds the topic, the reception time or the reception host; and every      *)
(* transform rule's output equals the enriched field it reads, i.e. the      *)
(* transforms ran on the enriched payload and the emitter got their result.  *)
C8_EnrichThenTransformThenEmit ==
    \A i \in EmittedIdx :
        LET e == emitted[i]
            m == e.out.msg
        IN  /\ MetadataKeys \subseteq DOMAIN m
            /\ \A f \in DOMAIN e.body : m[f] = e.body[f]
            /\ ~Has(e.body, "__topic__") => m["__topic__"] = e.out.topic
            /\ ~Has(e.body, "__reception_time__") => m["__reception_time__"] = e.when
            /\ ~Has(e.body, "__reception_host__") => m["__reception_host__"] = e.host
            /\ \A j \in 1..Len(opts.transforms) :
                   /\ Has(m, opts.transforms[j].key)
                   /\ m[opts.transforms[j].key] = m[opts.transforms[j].expr]

(* Witness of C8: a body that came with its own metadata and one that came   *)
(* without have both been emitted.                                           *)
C8_Witness ==
    \E i, j \in EmittedIdx :
        /\ MetadataKeys \subseteq DOMAIN emitted[i].body
        /\ emitted[i].out.msg["__reception_host__"] # emitted[i].host
        /\ MetadataKeys \cap DOMAIN emitted[j].body = {}
        /\ emitted[j].out.msg["note"] = emitted[j].out.topic

(* C9: with -t N the process does not run on once N seconds have passed      *)
(* since the start or the last emit, whatever was received meanwhile, and    *)
(* when it ends on the idle timeout its exit status is 2, in single and in   *)
(* multi mode.                                                               *)
C9_IdleTimeoutExitsWith2 ==
    opts.timeout > 0 =>
        /\ sup = "run" => now - idleSince <= opts.timeout
        /\ sup = "timeout" => (rc = 2 /\ now - idleSince = opts.timeout)

(* The steps the session took for delivery tag *)
StepsOf(tag) == {trace[i].step : i \in {j \in 1..Len(trace) : trace[j].tag = tag}}
AckedAfterReturn(i) ==
    /\ i > 1
    /\ trace[i - 1].tag = trace[i].tag
    /\ trace[i - 1].step = "callback_returned"

(* C10 as stated: for every delivery whose body decodes to a JSON value      *)
(* (null included) the acknowledgement follows the callback's return, and a  *)
(* delivery whose callback raised is never acknowledged.                     *)
C10_AckOnlyAfterCallback ==
    \A i \in 1..Len(trace) :
        /\ (trace[i].step = "ack" /\ trace[i].kind # "invalid") => AckedAfterReturn(i)
        /\ trace[i].step = "callback_raised" => "ack" \notin StepsOf(trace[i].tag)

(* C10 amended: for every delivery whose body decodes to a JSON value other  *)
(* than null the acknowledgement follows the callback's return, and a        *)
(* delivery whose callback raised is never acknowledged; a delivery whose    *)
(* body is null or is not JSON is acknowledged without a callback.           *)
C10_AckOnlyAfterCallbackUnlessNull ==
    \A i \in 1..Len(trace) :
        /\ (trace[i].step = "ack" /\ trace[i].kind \notin {"invalid", "null"})
               => AckedAfterReturn(i)
        /\ trace[i].step = "callback_raised" => "ack" \notin StepsOf(trace[i].tag)
        /\ trace[i].kind \in {"invalid", "null"} => StepsOf(trace[i].tag) = {"ack"}

(* Witness of C10: one delivery was acknowledged after its callback          *)
(* returned, and the callback of the next one raised.                        *)
C10_Witness ==
    /\ Len(trace) = 3
    /\ trace[1].step = "callback_returned" /\ trace[2].step = "ack"
    /\ trace[3].step = "callback_raised" /\ trace[3].tag # trace[2].tag
    /\ sup = "crashed"

(* C11: every delivery to a worker whose body is malformed (not UTF-8, not   *)
(* JSON, or JSON that is not an object) is acknowledged, puts nothing on the *)
(* fan-in queue (is not emitted), and does not end the session: its callback *)
(* does not raise.                                                           *)
C11_MalformedAckedNotEmitted ==
    \A i \in 1..Len(trace) :
        trace[i].kind # "object" =>
            /\ "ack" \in StepsOf(trace[i].tag)
            /\ "callback_raised" \notin StepsOf(trace[i].tag)
            /\ \A j \in 1..Len(queue) : queue[j].n # trace[i].tag

(* C12: the worker ends only when reconnect_tries was set and that many     *)
(* connection attempts have been made; a failed attempt, the opening of a    *)
(* connection included, does not end it while attempts remain.               *)
C12_WorkerRetriesWhileTriesRemain ==
    wpc \in {"dead", "done"} =>
        /\ attempts # <<>>
        /\ attempts[1].tries # Nil
        /\ Len(attempts) >= attempts[1].tries

(* The rules of the list that assign key k, and the last of them *)
RulesFor(trans, k) == {i \in 1..Len(trans) : trans[i].key = k}
LastRuleFor(trans, k) == CHOOSE i \in RulesFor(trans, k) : \A j \in RulesFor(trans, k) : j <= i

(* C13 as stated: the output of the transforms is what results when each     *)
(* rule in turn is evaluated on the payload as the earlier rules left it.    *)
C13_LaterRulesSeeEarlierResults ==
    \A i \in EmittedIdx :
        LET in == Enriched(emitted[i].body, emitted[i].out.at)
        IN  emitted[i].out.msg = TransformsFrom_sequential(opts.transforms, in, in)

(* C13 amended: every rule is evaluated on the payload as it was before the  *)
(* first rule; the output has the payload's fields and the rules' keys, a    *)
(* key holding the value its last rule computed from the input payload, any  *)
(* other field its input value.                                              *)
C13_RulesSeeInputPayloadOnly ==
    \A i \in EmittedIdx :
        LET in == Enriched(emitted[i].body, emitted[i].out.at)
            out == emitted[i].out.msg
            trans == opts.transforms
        IN  /\ DOMAIN out = DOMAIN in \cup {trans[j].key : j \in 1..Len(trans)}
            /\ \A k \in DOMAIN out :
                   out[k] = IF RulesFor(trans, k) # {}
                            THEN in[trans[LastRuleFor(trans, k)].expr]
                            ELSE in[k]

(* Witness of C13: two rules were applied, the second reads the field the    *)
(* first one assigned a new value to.                                        *)
C13_Witness ==
    /\ Len(emitted) = 1 /\ Len(opts.transforms) = 2
    /\ opts.transforms[2].expr = opts.transforms[1].key
    /\ opts.transforms[2].key # opts.transforms[1].key
    /\ emitted[1].out.msg[opts.transforms[1].key] # emitted[1].body[opts.transforms[1].key]
    /\ emitted[1].out.msg[opts.transforms[2].key] = emitted[1].body[opts.transforms[1].key]

(* C14: an event dispatched to emit is emitted whether or not one of the     *)
(* transform rules raises, the rules that evaluate are applied, and the      *)
(* supervisor keeps running.                                                 *)
C14_RaisingRuleIsSkipped ==
    (opts.servers > 1 /\ delivered = 1) =>
        /\ sup = "run"
        /\ Len(emitted) = 1
        /\ \A j \in 1..Len(opts.transforms) :
               (/\ Has(Enriched(payload, 0), opts.transforms[j].expr)
                /\ RulesFor(opts.transforms, opts.transforms[j].key) = {j})
                   => Has(emitted[1].out.msg, opts.transforms[j].key)

(* C17: with a format string of {name} placeholders, emitting a payload       *)
(* writes exactly one line: the literal texts, and for every placeholder the *)
(* payload's value of that name, or ?UNKNOWN? when the payload has no such   *)
(* name; the payload is after the call what it was before, without the       *)
(* sentinel.                                                                 *)
C17_TemplateWritesOneLine ==
    (emitted # <<>> /\ json_format_str.mode = "template") =>
        /\ Len(printed) = 1
        /\ printed[1].content = emitted[1].out.msg
        /\ NamesOf(json_format_str.parts) \cap DOMAIN printed[1].content
               \subseteq DOMAIN emitted[1].out.msg
        /\ Len(printed[1].line) = Len(json_format_str.parts)
        /\ \A i \in 1..Len(json_format_str.parts) :
               LET part == json_format_str.parts[i]
               IN  printed[1].line[i] =
                       IF part.name = "" THEN part.text
                       ELSE IF part.name \in DOMAIN emitted[1].out.msg
                       THEN emitted[1].out.msg[part.name]
                       ELSE "?UNKNOWN?"

(* Witness of C17: a line was written with one placeholder filled from the   *)
(* payload and one with the sentinel.                                        *)
C17_Witness ==
    /\ Len(printed) = 1 /\ json_format_str.mode = "template"
    /\ \E i, j \in 1..Len(printed[1].line) :
          /\ json_format_str.parts[i].name \in DOMAIN payload
          /\ printed[1].line[i] = payload[json_format_str.parts[i].name]
          /\ json_format_str.parts[j].name # ""
          /\ json_format_str.parts[j].name \notin DOMAIN printed[1].content
          /\ printed[1].line[j] = "?UNKNOWN?"

(* C15: in Race mode an event whose key expression raised is emitted by the  *)
(* dispatcher call that got it, whatever windows are open, and opens no      *)
(* window (so that no later event is dropped for it): the key None that      *)
(* key_for_msg returned is not among the active keys.                        *)
C15_KeyErrorPassesThrough ==
    (RaceMode(opts) /\ calls.keyerr) =>
        /\ \E j \in EmittedIdx : emitted[j].n = calls.n /\ emitted[j].out.at = calls.at
        /\ None \notin KeysOf(active_keys)

(* The key or the score of a payload cannot be evaluated *)
Unscorable(o, msg) ==
    key_raises(o, msg) \/ score_raises(o, msg) \/ (o.score = "lambda" /\ ~Has(msg, "defects"))

(* C16: in Compete mode an event whose key or score expression raises is     *)
(* never emitted, a closed window that has other candidates emits one of     *)
(* them, and the supervisor keeps running.                                   *)
C16_ErrorEventsLeaveCandidacy ==
    CompeteMode(opts) =>
        /\ sup # "crashed"
        /\ \A i \in EmittedIdx : ~Unscorable(opts, emitted[i].body)
        /\ \A i \in ClosedIdx :
               (\E x \in Range(closed[i].cands) : ~Unscorable(opts, x.body))
                   => (closed[i].winner # NoEvent /\ ~Unscorable(opts, closed[i].winner.body))

(* The rows of the batches some stream of a file holds, batch by batch *)
BatchesIn(file) == {i \in 1..Len(file) : file[i].k = "batch"}

(* The dates the lines of the model name, and the datetimes a reader asks  *)
(* for: a morning and an evening hour of each date                          *)
Dates == {fromisoformat(t) : t \in {st \in StartTimes : ~fromisoformat_raises(st)}}

Datetimes ==
    {[year |-> d.year, month |-> d.month, day |-> d.day, hour |-> h] :
        d \in Dates, h \in {6, 18}}

(* C18: after any sequence of write_batch calls on a BatchWriter with pool *)
(* size N, the number of partition files open at the same time never       *)
(* exceeds N, the admission of a new date to a full pool included.         *)
C18_OpenFilesNeverExceedPool == peak_open <= max_size

(* A row the reader returned has the field values of a row that was written *)
SameValues(got, row) ==
    /\ got.topic = row.topic
    /\ got.start_time = row.start_time
    /\ got.reception_time = row.reception_time
    /\ got.src = row.src

(* C19: every record write_batch appended to a partition file is returned  *)
(* by read_satellite_data with no filter over a range that covers its      *)
(* date, with equal field values and nulls preserved, whatever writes came *)
(* before: also when the file was closed by an eviction and admitted again, *)
(* or opened again by a restarted pipeline.                                 *)
C19_WrittenRecordsAreReadBack ==
    \A d \in Dates : \A lo \in Datetimes : \A hi \in Datetimes :
        lo.hour = hi.hour /\ toordinal(lo) <= toordinal(d) /\ toordinal(d) <= toordinal(hi) =>
            \A b \in BatchesIn(FileOf(files, _path_stub_from_date(d))) :
                \A r \in 1..Len(FileOf(files, _path_stub_from_date(d))[b].rows) :
                    \E g \in 1..Len(read_satellite_data(files, lo, hi).rows) :
                        SameValues(read_satellite_data(files, lo, hi).rows[g],
                                   FileOf(files, _path_stub_from_date(d))[b].rows[r])

(* The path YYYY/YYYY_MM/YYYY_MM_DD_latencies.arrows of the date that the  *)
(* first ten characters of a start_time text spell                          *)
PartitionFileOf(text) ==
    <<text[1], text[1] * 100 + text[2], (text[1] * 100 + text[2]) * 100 + text[3]>>

(* Where the files hold a written row: path, message and row index *)
Places ==
    UNION {UNION {{[path |-> p, b |-> b, r |-> r] : r \in 1..Len(files[p][b].rows)} :
                     b \in BatchesIn(files[p])} :
              p \in DOMAIN files}

RowAt(pl) == files[pl.path][pl.b].rows[pl.r]

(* C20: every record the pipeline writes is appended to the partition file *)
(* whose date is the first ten characters of its start_time, and to no     *)
(* other file; the records of one flush that share a date are written as   *)
(* one batch, in the order they were ingested.                             *)
C20_WrittenToItsPartitionInOrder ==
    /\ \A pl \in Places : pl.path = PartitionFileOf(RowAt(pl).src.start_time)
    /\ \A p1 \in Places : \A p2 \in Places :
          RowAt(p1).src.n = RowAt(p2).src.n => p1 = p2
    /\ \A p1 \in Places : \A p2 \in Places :
          /\ RowAt(p1).src.flush = RowAt(p2).src.flush
          /\ SubSeq(RowAt(p1).src.start_time, 1, 3) = SubSeq(RowAt(p2).src.start_time, 1, 3)
          => /\ p1.path = p2.path /\ p1.b = p2.b
             /\ (RowAt(p1).src.n < RowAt(p2).src.n <=> p1.r < p2.r)

(* Two records of one flush went to one file as one batch, a third record  *)
(* went to the file of another date                                         *)
C20_Witness ==
    /\ \E pl \in Places : Len(files[pl.path][pl.b].rows) = 2
    /\ \E p1 \in Places : \E p2 \in Places : p1.path # p2.path

(* C21: the pipeline flushes its buffered records as soon as               *)
(* BATCH_MAX_SIZE records have accumulated or BATCH_MAX_DELAY seconds have *)
(* elapsed since the last flush, whichever comes first: while it runs, the *)
(* buffer never holds BATCH_MAX_SIZE records, and a non-empty buffer is    *)
(* never older than BATCH_MAX_DELAY seconds, lines arriving or not.        *)
C21_FlushedBySizeOrDelay ==
    ppc = "run" =>
        /\ batch_size < BatchMaxSize
        /\ data # <<>> => now - batch_time <= BatchMaxDelay

(* The dates from the date of one datetime to the date of another *)
DatesBetween(from, until) ==
    {d \in Dates : toordinal(from) <= toordinal(d) /\ toordinal(d) <= toordinal(until)}

Ascending(paths) ==
    \A i \in 1..Len(paths) : \A j \in 1..Len(paths) : i < j => paths[i][3] < paths[j][3]

(* C22: for every pair of datetimes from <= until the reader enumerates,   *)
(* in ascending order of date, the partition file of every calendar date d *)
(* with from.date() <= d <= until.date() (the files that exist), whatever  *)
(* the times of day of from and until.                                     *)
C22_EveryDateOfRangeEnumerated ==
    \A from \in Datetimes : \A until \in Datetimes :
        HoursOf(from) <= HoursOf(until) =>
            /\ {_files_from_date_range(files, from, until)[i] :
                    i \in 1..Len(_files_from_date_range(files, from, until))}
               = {PartitionFileOf(<<d.year, d.month, d.day>>) : d \in DatesBetween(from, until)}
                 \cap DOMAIN files
            /\ Ascending(_files_from_date_range(files, from, until))

(* C23: read_satellite_data skips the partition files that do not exist    *)
(* and returns a result without raising for every date range, a range in   *)
(* which no partition file exists included (the result is then empty).     *)
C23_ReadNeverRaises ==
    \A from \in Datetimes : \A until \in Datetimes :
        HoursOf(from) <= HoursOf(until) =>
            read_satellite_data(files, from, until).raised = None

(* A message that cannot be read; err is the exception class the library   *)
(* raises for the damage                                                    *)
CorruptMsg(err) == [k |-> "corrupt", err |-> err]

(* The files with batch b of the file at path damaged: the batch corrupt   *)
(* in place, or the file cut short inside it                                *)
Damaged(fs, path, b, how, err) ==
    [p \in DOMAIN fs |->
        IF p # path THEN fs[p]
        ELSE IF how = "corrupt"
        THEN [i \in 1..Len(fs[p]) |-> IF i = b THEN CorruptMsg(err) ELSE fs[p][i]]
        ELSE Append(SubSeq(fs[p], 1, b - 1), CorruptMsg(err))]

(* The rows of the batches of the files of a range that a reader which     *)
(* takes every file as one stream can reach: those before the first        *)
(* end-of-stream marker                                                     *)
IntactRows(fs, from, until) ==
    UNION {UNION {{fs[p][b].rows[r] : r \in 1..Len(fs[p][b].rows)} :
                     b \in {c \in BatchesIn(fs[p]) :
                               \A j \in 1..c : fs[p][j].k # "eos"}} :
              p \in {q \in DOMAIN fs : \E d \in DatesBetween(from, until) :
                                          q = _path_stub_from_date(d)}}

(* C24: reading a partition file that holds a corrupt batch or a truncated *)
(* trailing batch terminates, raises nothing and returns every intact      *)
(* batch of that file and of the files after it.                           *)
C24_DamagedBatchIsSkipped ==
    \A path \in DOMAIN files : \A b \in BatchesIn(files[path]) :
      \A how \in {"corrupt", "truncated"} : \A err \in {"OSError", "ArrowInvalid"} :
        \A from \in Datetimes : \A until \in Datetimes :
          /\ from.hour = until.hour /\ HoursOf(from) <= HoursOf(until)
          /\ \E d \in DatesBetween(from, until) : path = _path_stub_from_date(d)
          => /\ read_satellite_data(Damaged(files, path, b, how, err), from, until).raised = None
             /\ \A row \in IntactRows(Damaged(files, path, b, how, err), from, until) :
                   \E g \in 1..Len(read_satellite_data(
                                       Damaged(files, path, b, how, err), from, until).rows) :
                       SameValues(read_satellite_data(
                                      Damaged(files, path, b, how, err), from, until).rows[g], row)

(* The rows read_satellite_data returns for some range of the model *)
ReadRows ==
    UNION {{read_satellite_data(files, q[1], q[2]).rows[g] :
               g \in 1..Len(read_satellite_data(files, q[1], q[2]).rows)} :
           q \in {r \in Datetimes \X Datetimes : HoursOf(r[1]) <= HoursOf(r[2])}}

(* How far, in microseconds, the latency of a row is from reception_time   *)
(* minus start_time                                                         *)
LatencyError(row) ==
    (row.latency.num - (row.reception_time.s - row.start_time.s) * 1000) * 1000
    - (row.reception_time.us - row.start_time.us)

(* C25: every row read_satellite_data returns carries a latency that is a  *)
(* whole number of milliseconds divided by 1000 and lies within 1e-3 s of  *)
(* reception_time minus start_time; the latency is computed on read only,  *)
(* no stored batch has a latency column.                                    *)
C25_LatencyComputedOnRead ==
    /\ \A row \in ReadRows :
          /\ "latency" \in DOMAIN row
          /\ row.latency.den = 1000
          /\ LatencyError(row) <= 1000 /\ LatencyError(row) >= -1000
    /\ \A pl \in Places : "latency" \notin DOMAIN RowAt(pl)

(* A row was read whose latency is not the exact difference: the cut to    *)
(* whole milliseconds took something away                                   *)
C25_Witness == \E row \in ReadRows : LatencyError(row) # 0

(* One timestamp is not later than another *)
NotAfter(t1, t2) == t1.s < t2.s \/ (t1.s = t2.s /\ t1.us <= t2.us)

(* C26: every record the pipeline stored has reception_time >= start_time, *)
(* and a record whose start_time is null is rejected at ingest: it is not  *)
(* stored and the pipeline goes on with the following lines (it does not   *)
(* end with the AttributeError of the null).                               *)
C26_StoredRecordsAreOrderedInTime ==
    /\ \A pl \in Places : NotAfter(RowAt(pl).start_time, RowAt(pl).reception_time)
    /\ ppc # "AttributeError"

(* C27: every malformed line (a number of fields other than that of        *)
(* INGEST_FIELDS, or an empty line) is skipped: nothing is stored for it   *)
(* and the pipeline goes on with the next line (it does not end with the   *)
(* KeyError of a missing field).                                            *)
C27_MalformedLinesAreSkipped ==
    /\ \A pl \in Places : RowAt(pl).src.fields = Len(INGEST_FIELDS)
    /\ ppc # "KeyError"

(* C28: a record whose start_time is no timestamp, one with a valid date   *)
(* and an invalid time of day included, is dropped on its own: the         *)
(* pipeline keeps running and writes the other records of the flush (it   *)
(* does not end with the ArrowInvalid of the cast).                        *)
C28_UnparseableStartTimeIsDropped == ppc # "ArrowInvalid"

(* C29: when the write of a batch fails with an I/O error the pipeline     *)
(* keeps running (it does not end with the OSError), the file is closed    *)
(* and leaves the pool.                                                     *)
C29_WriteErrorKeepsPipelineRunning == ppc # "OSError"

(* C30: in the one-shot mode of the publisher, when publish has returned   *)
(* its mapping from target to delivery status, the process exits 0 if the  *)
(* status of at least one target is accepted, and 1 if the status of every *)
(* target is rejected or dropped.                                           *)
C30_OneShotExitStatus ==
    qpc = "return" /\ pub_status # <<>> =>
        (ret = 0 <=> \E t \in DOMAIN pub_status : pub_status[t] = "ACCEPTED")

(* Every target of the client is still reconnecting *)
AllReconnecting == \A t \in DOMAIN connections : connections[t] = "RECONNECTING"

StreamLeft ==
    /\ qpc \notin {"off", "parse", "parser.error", "connect", "check", "fast-fail", "stream"}
    /\ ~truth(args.data)

(* C32: in the stream mode of the publisher the loop over the lines of     *)
(* stdin is left only at the end of stdin or on an interrupt (or when      *)
(* stdin itself breaks), never because of what a line holds, and whenever  *)
(* it has been left the client has been disconnected.                      *)
C32_StreamEndsOnlyAtEofOrInterrupt ==
    StreamLeft =>
        /\ qpc \in {"EOF", "KeyboardInterrupt", "BrokenPipeError"}
        /\ disconnected

(* The second half of C32 on its own: every way out of the loop            *)
(* disconnects the client                                                   *)
StreamLeftDisconnects == StreamLeft => disconnected

(* The place of the first '=' of a text that has the form k=v with v not    *)
(* empty, 0 for a text that has not                                        *)
FirstEq(val) ==
    IF \E n \in 1..Len(val) - 1 : val[n] = "=" /\ \A m \in 1..n - 1 : val[m] # "="
    THEN CHOOSE n \in 1..Len(val) - 1 : val[n] = "=" /\ \A m \in 1..n - 1 : val[m] # "="
    ELSE 0

(* C35: for every text given to -m, once parse_args has run: a text k=v    *)
(* with v not empty was turned into the pair of what stands before its     *)
(* first '=' and what stands after it; for a text without '=' or with      *)
(* nothing after its first '=' (the empty text too) key_value_type raised  *)
(* ValueError, no pair was returned and the command line was refused.      *)
C35_KeyValueSplitsAtFirstEquals ==
    qpc \notin {"off", "parse"} =>
        \A i \in 1..Len(argv.metadata) :
            LET val == argv.metadata[i]
                n == FirstEq(val)
            IN  IF n # 0
                THEN argv.data.kind \notin {"list", "invalid"} =>
                        /\ qpc # "parser.error"
                        /\ args.metadata[i] = <<SubSeq(val, 1, n - 1), SubSeq(val, n + 1, Len(val))>>
                ELSE qpc = "parser.error" /\ args = <<>>

C35_Witness ==
    /\ qpc = "connect"
    /\ argv.metadata = << <<"u", "=", "w", "=", "x">> >>
    /\ args.metadata = << << <<"u">>, <<"w", "=", "x">> >> >>

(* The replacement field that opens at place p of fmt: the text between    *)
(* the '{' and the next '}'                                                *)
FieldAt(fmt, p) ==
    LET q == CHOOSE j \in p + 1..Len(fmt) :
                 fmt[j] = "}" /\ \A m \in p + 1..j - 1 : fmt[m] # "}"
    IN  SubSeq(fmt, p + 1, q - 1)

(* Place p of fmt lies within a replacement field, after its '{' *)
WithinField(fmt, p) ==
    \E o \in 1..p - 1 : fmt[o] = "{" /\ \A m \in o + 1..p - 1 : fmt[m] # "}"

(* The value a field names in the message data: data[name], or             *)
(* data[name][index] for name[index]                                       *)
LookedUp(field, d) ==
    IF \E b \in 1..Len(field) : field[b] = "["
    THEN LET b == CHOOSE b \in 1..Len(field) : field[b] = "["
         IN  d[SubSeq(field, 1, b - 1)].at[SubSeq(field, b + 1, Len(field) - 1)]
    ELSE d[field]

(* fmt with every replacement field replaced by the value looked up in d *)
Substituted(fmt, d) ==
    Flatten([p \in 1..Len(fmt) |->
                IF fmt[p] = "{" THEN str(LookedUp(FieldAt(fmt, p), d))
                ELSE IF WithinField(fmt, p) THEN <<>>
                ELSE <<fmt[p]>>])

SettingOf ==
    [hosts |-> "host", exchanges |-> "exchange", users |-> "user",
     passwds |-> "password", consumes |-> "key", durables |-> "durable"]

(* The most values any repeatable option was given *)
MostGiven ==
    CHOOSE n \in 0..MaxValues :
        /\ \A o \in DOMAIN cmdline.given : cmdline.given[o] <= n
        /\ \E o \in DOMAIN cmdline.given : cmdline.given[o] = n

(* A value of -H, -X, -u, -p, -C, -D as the server settings hold it: -D @  *)
(* stands for the host name and is held as True                            *)
Held(value) == IF value = "@" THEN "True" ELSE value

(* C33: once main() has built its server list, for the value lists of -H,  *)
(* -X, -u, -p, -C, -D and N the greatest of their lengths: if every length *)
(* is 0, 1 or N the list has N entries, entry j holding the j-th value of  *)
(* every list of N values, the one value of every list of one and None for *)
(* an option not given; otherwise main() has ended with an error, the list *)
(* is empty and no connection was opened.                                  *)
C33_ServersAreBroadcastOptionLists ==
    mpc \notin {"off", "start"} =>
        IF \A o \in DOMAIN cmdline.given : cmdline.given[o] \in {0, 1, MostGiven}
        THEN /\ Len(servers) = MostGiven
             /\ \A j \in 1..MostGiven : \A o \in DOMAIN cmdline.given :
                   servers[j][SettingOf[o]] =
                       IF cmdline.given[o] = 0 THEN None
                       ELSE IF cmdline.given[o] = MostGiven THEN Held(OptionValues[o][j])
                       ELSE Held(OptionValues[o][1])
        ELSE /\ mpc = "ValueError" /\ main_rc = 1
             /\ servers = <<>> /\ contacted = {}

C33_Witness ==
    /\ mpc = "multi_main" /\ Len(servers) = 3
    /\ cmdline.given.exchanges = 1 /\ cmdline.given.users = 0
    /\ servers[3].host = "mqC" /\ servers[3].exchange = "x1" /\ servers[3].user = None

(* C34: with -P and exactly one server, when main() has ended: the JSON    *)
(* object on stdin was published once, to the exchange of the server's     *)
(* settings and under the topic of -P, nothing was consumed and the exit   *)
(* status is 0.                                                            *)
C34_ProducePublishesOnceAndExits ==
    /\ mpc \notin {"off", "start", "servers"}
    /\ cmdline.produce # None /\ Len(servers) = 1
    /\ cmdline.stdin.kind = "object"
    => /\ produced = <<[exchange |-> servers[1].exchange, key |-> cmdline.produce,
                        content |-> cmdline.stdin]>>
       /\ main_rc = 0
       /\ mpc \notin {"single_main", "multi_main"}

(* The number of the latest write_batch call for a date, 0 if there is none *)
LastCall(date) ==
    IF \E i \in 1..Len(write_calls) : write_calls[i] = date
    THEN CHOOSE i \in 1..Len(write_calls) :
             write_calls[i] = date /\ \A j \in i + 1..Len(write_calls) : write_calls[j] # date
    ELSE 0

(* C37: on a BatchWriter of pool size N after any write_batch calls: the   *)
(* pool holds the dates in the order of their latest write_batch call, the *)
(* date of the latest call last; a date that was called for and is not in  *)
(* the pool has its latest call before that of every pooled date, and then *)
(* the pool is full (only the least recently used date is ever evicted);   *)
(* the file of an evicted date is closed and the file of every pooled date *)
(* is open.                                                                *)
C37_EvictsLeastRecentlyUsed ==
    ppc = "writer" =>
        /\ \A i \in 1..Len(writer_pool) : LastCall(writer_pool[i]) > 0
        /\ \A i, j \in 1..Len(writer_pool) :
              i < j => LastCall(writer_pool[i]) < LastCall(writer_pool[j])
        /\ \A d \in WriteDates :
              LastCall(d) > 0 /\ (\A i \in 1..Len(writer_pool) : writer_pool[i] # d) =>
                  /\ Len(writer_pool) = max_size
                  /\ \A i \in 1..Len(writer_pool) : LastCall(d) < LastCall(writer_pool[i])
                  /\ _path_stub_from_date(d) \notin open_files
        /\ \A i \in 1..Len(writer_pool) : _path_stub_from_date(writer_pool[i]) \in open_files

(* A date was written, a second, the first again, and a third date was     *)
(* admitted to the full pool of two: the second date was evicted           *)
C37_Witness ==
    /\ ppc = "writer" /\ max_size = 2 /\ Len(write_calls) = 4
    /\ write_calls[1] = write_calls[3] /\ write_calls[2] # write_calls[1]
    /\ write_calls[4] \notin {write_calls[1], write_calls[2]}
    /\ writer_pool = <<write_calls[1], write_calls[4]>>

(* The record is a row of a batch of the file at path *)
WrittenIn(fs, path, record) ==
    \E m \in 1..Len(FileOf(fs, path)) :
        /\ FileOf(fs, path)[m].k = "batch"
        /\ \E r \in 1..Len(FileOf(fs, path)[m].rows) :
              FileOf(fs, path)[m].rows[r].src = record

(* C38: when the input of the pipeline ends and run() returns, every       *)
(* record the buffer still holds has been appended to the partition file   *)
(* of its date by the time the process has exited.                         *)
C38_BufferedRecordsWrittenAtExit ==
    [][ppc = "run" /\ ppc' = "exited" =>
          \A i \in 1..Len(data) : \A k \in 1..Len(data[i].list) :
              WrittenIn(files', _path_stub_from_date(data[i].date), data[i].list[k])]_vars

(* C39: in multi-broker mode with -t N, while the supervisor runs, the     *)
(* worker of a broker is not ended by the idle timer, however long its     *)
(* broker delivers nothing.                                                *)
C39_IdleTimerSparesWorkers == sup = "run" => wpc # "killed"

====
